---- MODULE Spec2Model ----
(***************************************************************************)
(* Model of the streaming-service backend: the relational schema of        *)
(* setup_database.py (tables, keys, cascades, seed rows), the credential   *)
(* helpers and the two token guards of app.py, and the route handlers of   *)
(* app.py as functions from a database value and a request to a response   *)
(* and a new database value.                                               *)
(*                                                                         *)
(* A handler runs in one transaction: the statements it executes work on   *)
(* a private copy of the database, conn.commit() publishes the copy and    *)
(* conn.rollback() (or closing the connection without a commit) discards   *)
(* it.  Serial sequences are not transactional: a value drawn by a         *)
(* failed INSERT stays drawn.                                              *)
(***************************************************************************)
EXTENDS Integers, Sequences, FiniteSets, TLC

\* ------------------------------------------------------------------ bounds
\* Serial keys grow without bound; creation requests are accepted by the
\* model only while the sequence is at most the bound.
MaxAccountId == 2
MaxSubscriptionId == 4
MaxContentId == 5
MaxSeasonId == 3
MaxEpisodeId == 6
MaxMediaId == 7
MaxGenreId == 11
\* Last day on which the runs with a clock issue a token.
MaxIssueDay == 0
\* Largest profile id drawn in the runs with two owners, with plans of
\* different sizes, and with one owner's wishlist and history.
MaxOwnerProfileId == 1
MaxPlanProfileId == 2
MaxItemProfileId == 2

\* ------------------------------------------------------- program constants
\* timedelta(days=30) of register and login, timedelta(days=7) of admin_login.
AccountTokenDays == 30
AdminTokenDays == 7
\* Largest value of a PostgreSQL INTEGER column; VARCHAR(10) of age_rating_pref;
\* VARCHAR(255) of accounts.email.
Int4Max == 2147483647
AgeRatingLen == 10
EmailLen == 255
\* SQL NULL in accounts.subscription_id (serial keys start at 1).
NULL == 0

SECRET_KEY == "your-secret-key-change-in-production"

VARIABLES
  subscriptions,   \* rows of table subscriptions
  accounts,        \* rows of table accounts
  admins,          \* rows of table admins
  profiles,        \* rows of table profiles
  content,         \* rows of table content
  genres,          \* rows of table genres
  content_genres,  \* rows of table content_genres
  media_files,     \* rows of table media_files
  seasons,         \* rows of table seasons
  episodes,        \* rows of table episodes
  wishlist,        \* rows of table wishlist
  viewing_history, \* rows of table viewing_history
  seq,             \* next value of each serial sequence
  now,             \* the server clock, in days
  issued,          \* the tokens the server has handed out
  last,            \* the latest request with its response
  proc,            \* the requests being served by the server's threads
  setup            \* the run of setup_database.py

tables == <<subscriptions, accounts, admins, profiles, content, genres,
            content_genres, media_files, seasons, episodes, wishlist,
            viewing_history>>
vars == <<subscriptions, accounts, admins, profiles, content, genres,
          content_genres, media_files, seasons, episodes, wishlist,
          viewing_history, seq, now, issued, last, proc, setup>>

\* The database as one value: what a connection sees when it is opened.
DB ==
  [subscriptions |-> subscriptions, accounts |-> accounts, admins |-> admins,
   profiles |-> profiles, content |-> content, genres |-> genres,
   content_genres |-> content_genres, media_files |-> media_files,
   seasons |-> seasons, episodes |-> episodes, wishlist |-> wishlist,
   viewing_history |-> viewing_history, seq |-> seq]

\* --------------------------------------------------------------- credentials
\* bcrypt.hashpw(password, gensalt()): the salt is left out, what matters is
\* which password a hash verifies.
hashpw(password) == <<"bcrypt", password>>

checkpw(password, password_hash) == password_hash = <<"bcrypt", password>>

\* jwt.encode(payload, key, algorithm='HS256')
jwt_encode(payload, key) == [fmt |-> "jwt", payload |-> payload, key |-> key]

\* (mutant) jwt.decode that does not verify the signature
jwt_decode_unverified(token, key, t) ==
  /\ token.fmt = "jwt"
  /\ ("exp" \in DOMAIN token.payload => token.payload.exp > t)

\* (mutant) jwt.decode that still accepts a token at its exp
jwt_decode_through_exp(token, key, t) ==
  /\ token.fmt = "jwt"
  /\ token.key = key
  /\ ("exp" \in DOMAIN token.payload => token.payload.exp >= t)

\* jwt.decode(token, key, algorithms=['HS256']): the token must be well formed,
\* signed with the key, and its exp must lie after the clock.
jwt_decode_ok(token, key, t) ==
  /\ token.fmt = "jwt"
  /\ token.key = key
  /\ ("exp" \in DOMAIN token.payload => token.payload.exp > t)

\* ------------------------------------------------------------ SQL statements
\* The outcome of cur.execute: ok or the raised error, the connection's view of
\* the database afterwards, cur.rowcount, and the RETURNING value.
Success(D, n, id) == [ok |-> TRUE, db |-> D, err |-> "", rowcount |-> n, returning |-> id]

Failure(D, err) == [ok |-> FALSE, db |-> D, err |-> err, rowcount |-> 0, returning |-> 0]

\* A JSON integer of a request body may exceed what an INTEGER column holds:
\* it is held as hi * 2^31 + lo with 0 <= lo <= Int4Max.
JsonInt(hi, lo) == [hi |-> hi, lo |-> lo]

\* The number is within -2^31 .. 2^31 - 1, and its value as an INTEGER.
FitsInt4(j) == j.hi \in {-1, 0}

Int4Of(j) == IF j.hi = 0 THEN j.lo ELSE (j.lo - Int4Max) - 1

\* nextval of a serial column: drawn when the row is built, before its unique
\* and foreign keys are checked, and never given back.
Bump(D, t) == [D EXCEPT !.seq[t] = @ + 1]

\* (mutant) a rollback that keeps what the connection wrote
rollback_keeping_writes(D0, D1) == D1

\* conn.rollback(), or conn.close() without a commit: the rows are those at
\* the start of the request; the sequences keep what was drawn.
rollback(D0, D1) == [D0 EXCEPT !.seq = D1.seq]

\* conn.commit(): the connection's view becomes the database.
commit(D0, D1) == D1

SubscriptionIds(D) == {s.subscription_id : s \in D.subscriptions}
AccountIds(D) == {a.account_id : a \in D.accounts}
ProfileIds(D) == {p.profile_id : p \in D.profiles}
ContentIds(D) == {c.content_id : c \in D.content}
GenreIds(D) == {g.genre_id : g \in D.genres}
SeasonIds(D) == {s.season_id : s \in D.seasons}
EpisodeIds(D) == {e.episode_id : e \in D.episodes}
\* INSERT INTO subscriptions (name, max_profiles, monthly_price) ... RETURNING subscription_id
insert_subscription(D, name, max_profiles, monthly_price) ==
  IF ~FitsInt4(max_profiles) THEN Failure(D, "integer out of range")
  ELSE LET id == D.seq.subscriptions
           B == Bump(D, "subscriptions")
       IN IF \E s \in D.subscriptions : s.name = name
          THEN Failure(B, "duplicate key value violates unique constraint")
          ELSE Success([B EXCEPT !.subscriptions = @ \cup
                  {[subscription_id |-> id, name |-> name,
                    monthly_price |-> monthly_price, max_profiles |-> Int4Of(max_profiles)]}],
                  1, id)

\* INSERT INTO accounts (email, password_hash, subscription_id) ... RETURNING account_id
insert_account(D, email, password_hash, subscription_id) ==
  LET id == D.seq.accounts
      B == Bump(D, "accounts")
  IN IF Len(email) > EmailLen
     THEN Failure(D, "value too long for type character varying(255)")
     ELSE IF \E a \in D.accounts : a.email = email
     THEN Failure(B, "duplicate key value violates unique constraint")
     ELSE IF subscription_id # NULL /\ subscription_id \notin SubscriptionIds(D)
     THEN Failure(B, "violates foreign key constraint")
     ELSE Success([B EXCEPT !.accounts = @ \cup
             {[account_id |-> id, email |-> email, password_hash |-> password_hash,
               subscription_id |-> subscription_id]}], 1, id)

\* INSERT INTO profiles (account_id, name, age_rating_pref) ... RETURNING profile_id
insert_profile(D, account_id, name, age_rating_pref) ==
  IF Len(age_rating_pref) > AgeRatingLen
  THEN Failure(D, "value too long for type character varying(10)")
  ELSE LET id == D.seq.profiles
           B == Bump(D, "profiles")
       IN IF account_id \notin AccountIds(D)
          THEN Failure(B, "violates foreign key constraint")
          ELSE Success([B EXCEPT !.profiles = @ \cup
                  {[profile_id |-> id, account_id |-> account_id, name |-> name,
                    age_rating_pref |-> age_rating_pref]}], 1, id)

\* INSERT INTO content (title, type, description, release_year) ... RETURNING content_id
insert_content(D, title, type, description, release_year) ==
  IF ~FitsInt4(release_year) THEN Failure(D, "integer out of range")
  ELSE LET id == D.seq.content
           B == Bump(D, "content")
       IN IF type \notin {"Movie", "Show"}
          THEN Failure(B, "violates check constraint")
          ELSE Success([B EXCEPT !.content = @ \cup
                  {[content_id |-> id, title |-> title, type |-> type,
                    description |-> description, release_year |-> Int4Of(release_year)]}],
                  1, id)

\* INSERT INTO genres (name) ... RETURNING genre_id
insert_genre(D, name) ==
  LET id == D.seq.genres
      B == Bump(D, "genres")
  IN IF \E g \in D.genres : g.name = name
     THEN Failure(B, "duplicate key value violates unique constraint")
     ELSE Success([B EXCEPT !.genres = @ \cup {[genre_id |-> id, name |-> name]}], 1, id)

\* (mutant) the INSERT without ON CONFLICT DO NOTHING
insert_content_genre_without_on_conflict(D, content_id, genre_id) ==
  IF <<content_id, genre_id>> \in D.content_genres
  THEN Failure(D, "duplicate key value violates unique constraint")
  ELSE IF content_id \notin ContentIds(D) \/ genre_id \notin GenreIds(D)
  THEN Failure(D, "violates foreign key constraint")
  ELSE Success([D EXCEPT !.content_genres = @ \cup {<<content_id, genre_id>>}], 1, 0)

\* INSERT INTO content_genres (content_id, genre_id) ... ON CONFLICT DO NOTHING
insert_content_genre(D, content_id, genre_id) ==
  IF <<content_id, genre_id>> \in D.content_genres THEN Success(D, 0, 0)
  ELSE IF content_id \notin ContentIds(D) \/ genre_id \notin GenreIds(D)
  THEN Failure(D, "violates foreign key constraint")
  ELSE Success([D EXCEPT !.content_genres = @ \cup {<<content_id, genre_id>>}], 1, 0)

\* INSERT INTO media_files (content_id, resolution, language, file_path) ... RETURNING media_id
insert_media_file(D, content_id, resolution, language, file_path) ==
  LET id == D.seq.media_files
      B == Bump(D, "media_files")
  IN IF content_id \notin ContentIds(D)
     THEN Failure(B, "violates foreign key constraint")
     ELSE Success([B EXCEPT !.media_files = @ \cup
             {[media_id |-> id, content_id |-> content_id, resolution |-> resolution,
               language |-> language, file_path |-> file_path]}], 1, id)

\* INSERT INTO seasons (content_id, season_number) ... RETURNING season_id
insert_season(D, content_id, season_number) ==
  IF ~FitsInt4(season_number) THEN Failure(D, "integer out of range")
  ELSE LET id == D.seq.seasons
           B == Bump(D, "seasons")
       IN IF \E s \in D.seasons : s.content_id = content_id /\ s.season_number = Int4Of(season_number)
          THEN Failure(B, "duplicate key value violates unique constraint")
          ELSE IF content_id \notin ContentIds(D)
          THEN Failure(B, "violates foreign key constraint")
          ELSE Success([B EXCEPT !.seasons = @ \cup
                  {[season_id |-> id, content_id |-> content_id,
                    season_number |-> Int4Of(season_number)]}], 1, id)

\* INSERT INTO episodes (season_id, title, episode_number) ... RETURNING episode_id
insert_episode(D, season_id, title, episode_number) ==
  IF ~FitsInt4(episode_number) THEN Failure(D, "integer out of range")
  ELSE LET id == D.seq.episodes
           B == Bump(D, "episodes")
       IN IF \E e \in D.episodes : e.season_id = season_id /\ e.episode_number = Int4Of(episode_number)
          THEN Failure(B, "duplicate key value violates unique constraint")
          ELSE IF season_id \notin SeasonIds(D)
          THEN Failure(B, "violates foreign key constraint")
          ELSE Success([B EXCEPT !.episodes = @ \cup
                  {[episode_id |-> id, season_id |-> season_id, title |-> title,
                    episode_number |-> Int4Of(episode_number)]}], 1, id)

\* (mutant) the INSERT INTO wishlist without ON CONFLICT DO NOTHING
insert_wishlist_without_on_conflict(D, profile_id, content_id) ==
  IF <<profile_id, content_id>> \in D.wishlist
  THEN Failure(D, "duplicate key value violates unique constraint")
  ELSE IF profile_id \notin ProfileIds(D) \/ content_id \notin ContentIds(D)
  THEN Failure(D, "violates foreign key constraint")
  ELSE Success([D EXCEPT !.wishlist = @ \cup {<<profile_id, content_id>>}], 1, 0)

\* INSERT INTO wishlist (profile_id, content_id) ... ON CONFLICT DO NOTHING
insert_wishlist(D, profile_id, content_id) ==
  IF <<profile_id, content_id>> \in D.wishlist THEN Success(D, 0, 0)
  ELSE IF profile_id \notin ProfileIds(D) \/ content_id \notin ContentIds(D)
  THEN Failure(D, "violates foreign key constraint")
  ELSE Success([D EXCEPT !.wishlist = @ \cup {<<profile_id, content_id>>}], 1, 0)

\* (mutant) the INSERT INTO viewing_history with ON CONFLICT DO NOTHING
upsert_viewing_history_do_nothing(D, profile_id, content_id, last_timestamp) ==
  IF ~FitsInt4(last_timestamp) THEN Failure(D, "integer out of range")
  ELSE IF \E h \in D.viewing_history :
            h.profile_id = profile_id /\ h.content_id = content_id
  THEN Success(D, 0, 0)
  ELSE IF profile_id \notin ProfileIds(D) \/ content_id \notin ContentIds(D)
  THEN Failure(D, "violates foreign key constraint")
  ELSE Success([D EXCEPT !.viewing_history = @ \cup
          {[profile_id |-> profile_id, content_id |-> content_id,
            last_timestamp |-> Int4Of(last_timestamp)]}], 1, 0)

\* INSERT INTO viewing_history ... ON CONFLICT (profile_id, content_id)
\* DO UPDATE SET last_timestamp = EXCLUDED.last_timestamp
upsert_viewing_history(D, profile_id, content_id, last_timestamp) ==
  IF ~FitsInt4(last_timestamp) THEN Failure(D, "integer out of range")
  ELSE LET others == {h \in D.viewing_history :
                        ~(h.profile_id = profile_id /\ h.content_id = content_id)}
           row == [profile_id |-> profile_id, content_id |-> content_id,
                   last_timestamp |-> Int4Of(last_timestamp)]
       IN IF others # D.viewing_history
          THEN Success([D EXCEPT !.viewing_history = others \cup {row}], 1, 0)
          ELSE IF profile_id \notin ProfileIds(D) \/ content_id \notin ContentIds(D)
          THEN Failure(D, "violates foreign key constraint")
          ELSE Success([D EXCEPT !.viewing_history = others \cup {row}], 1, 0)

\* UPDATE accounts SET email = %s WHERE account_id = %s
update_account_email(D, account_id, email) ==
  IF account_id \notin AccountIds(D) THEN Success(D, 0, 0)
  ELSE IF \E a \in D.accounts : a.email = email /\ a.account_id # account_id
  THEN Failure(D, "duplicate key value violates unique constraint")
  ELSE Success([D EXCEPT !.accounts =
          {IF a.account_id = account_id THEN [a EXCEPT !.email = email] ELSE a : a \in @}],
          1, 0)

\* UPDATE accounts SET password_hash = %s WHERE account_id = %s
update_account_password(D, account_id, password_hash) ==
  IF account_id \notin AccountIds(D) THEN Success(D, 0, 0)
  ELSE Success([D EXCEPT !.accounts =
          {IF a.account_id = account_id THEN [a EXCEPT !.password_hash = password_hash]
           ELSE a : a \in @}], 1, 0)

\* UPDATE accounts SET subscription_id = %s WHERE account_id = %s
update_account_subscription(D, account_id, subscription_id) ==
  IF account_id \notin AccountIds(D) THEN Success(D, 0, 0)
  ELSE IF subscription_id \notin SubscriptionIds(D)
  THEN Failure(D, "violates foreign key constraint")
  ELSE Success([D EXCEPT !.accounts =
          {IF a.account_id = account_id THEN [a EXCEPT !.subscription_id = subscription_id]
           ELSE a : a \in @}], 1, 0)

\* (mutant) an UPDATE of the name that also resets the age rating
update_profile_name_resetting_age_rating(D, profile_id, name) ==
  IF profile_id \notin ProfileIds(D) THEN Success(D, 0, 0)
  ELSE Success([D EXCEPT !.profiles =
          {IF p.profile_id = profile_id
           THEN [p EXCEPT !.name = name, !.age_rating_pref = ""] ELSE p : p \in @}],
          1, 0)

\* UPDATE profiles SET name = %s WHERE profile_id = %s
update_profile_name(D, profile_id, name) ==
  IF profile_id \notin ProfileIds(D) THEN Success(D, 0, 0)
  ELSE Success([D EXCEPT !.profiles =
          {IF p.profile_id = profile_id THEN [p EXCEPT !.name = name] ELSE p : p \in @}],
          1, 0)

\* UPDATE profiles SET age_rating_pref = %s WHERE profile_id = %s
update_profile_age_rating(D, profile_id, age_rating_pref) ==
  IF profile_id \notin ProfileIds(D) THEN Success(D, 0, 0)
  ELSE IF Len(age_rating_pref) > AgeRatingLen
  THEN Failure(D, "value too long for type character varying(10)")
  ELSE Success([D EXCEPT !.profiles =
          {IF p.profile_id = profile_id THEN [p EXCEPT !.age_rating_pref = age_rating_pref]
           ELSE p : p \in @}], 1, 0)

\* UPDATE subscriptions SET name = %s WHERE subscription_id = %s
update_subscription_name(D, subscription_id, name) ==
  IF subscription_id \notin SubscriptionIds(D) THEN Success(D, 0, 0)
  ELSE IF \E s \in D.subscriptions : s.name = name /\ s.subscription_id # subscription_id
  THEN Failure(D, "duplicate key value violates unique constraint")
  ELSE Success([D EXCEPT !.subscriptions =
          {IF s.subscription_id = subscription_id THEN [s EXCEPT !.name = name]
           ELSE s : s \in @}], 1, 0)

\* UPDATE subscriptions SET max_profiles = %s WHERE subscription_id = %s
update_subscription_max_profiles(D, subscription_id, max_profiles) ==
  IF ~FitsInt4(max_profiles) THEN Failure(D, "integer out of range")
  ELSE IF subscription_id \notin SubscriptionIds(D) THEN Success(D, 0, 0)
  ELSE Success([D EXCEPT !.subscriptions =
          {IF s.subscription_id = subscription_id THEN [s EXCEPT !.max_profiles = Int4Of(max_profiles)]
           ELSE s : s \in @}], 1, 0)

\* UPDATE subscriptions SET monthly_price = %s WHERE subscription_id = %s
update_subscription_price(D, subscription_id, monthly_price) ==
  IF subscription_id \notin SubscriptionIds(D) THEN Success(D, 0, 0)
  ELSE Success([D EXCEPT !.subscriptions =
          {IF s.subscription_id = subscription_id THEN [s EXCEPT !.monthly_price = monthly_price]
           ELSE s : s \in @}], 1, 0)

\* UPDATE content SET title = %s WHERE content_id = %s
update_content_title(D, content_id, title) ==
  IF content_id \notin ContentIds(D) THEN Success(D, 0, 0)
  ELSE Success([D EXCEPT !.content =
          {IF c.content_id = content_id THEN [c EXCEPT !.title = title] ELSE c : c \in @}],
          1, 0)

\* UPDATE content SET description = %s WHERE content_id = %s
update_content_description(D, content_id, description) ==
  IF content_id \notin ContentIds(D) THEN Success(D, 0, 0)
  ELSE Success([D EXCEPT !.content =
          {IF c.content_id = content_id THEN [c EXCEPT !.description = description]
           ELSE c : c \in @}], 1, 0)

\* UPDATE content SET release_year = %s WHERE content_id = %s
update_content_release_year(D, content_id, release_year) ==
  IF ~FitsInt4(release_year) THEN Failure(D, "integer out of range")
  ELSE IF content_id \notin ContentIds(D) THEN Success(D, 0, 0)
  ELSE Success([D EXCEPT !.content =
          {IF c.content_id = content_id THEN [c EXCEPT !.release_year = Int4Of(release_year)]
           ELSE c : c \in @}], 1, 0)

\* DELETE FROM profiles WHERE profile_id = %s AND account_id = %s
\* (wishlist and viewing_history rows of the profile go with it: ON DELETE CASCADE)
delete_profile_row(D, profile_id, account_id) ==
  LET gone == {p \in D.profiles : p.profile_id = profile_id /\ p.account_id = account_id}
      ids == {p.profile_id : p \in gone}
  IN Success([D EXCEPT !.profiles = @ \ gone,
                       !.wishlist = {w \in @ : w[1] \notin ids},
                       !.viewing_history = {h \in @ : h.profile_id \notin ids}],
             Cardinality(gone), 0)

\* DELETE FROM wishlist WHERE profile_id = %s AND content_id = %s
delete_wishlist_row(D, profile_id, content_id) ==
  Success([D EXCEPT !.wishlist = @ \ {<<profile_id, content_id>>}],
          IF <<profile_id, content_id>> \in D.wishlist THEN 1 ELSE 0, 0)

\* DELETE FROM viewing_history WHERE profile_id = %s AND content_id = %s
delete_history_row(D, profile_id, content_id) ==
  LET gone == {h \in D.viewing_history :
                 h.profile_id = profile_id /\ h.content_id = content_id}
  IN Success([D EXCEPT !.viewing_history = @ \ gone], Cardinality(gone), 0)

\* (mutant) the DELETE as if accounts.subscription_id were ON DELETE CASCADE
delete_subscription_row_cascading(D, subscription_id) ==
  LET gone == {s \in D.subscriptions : s.subscription_id = subscription_id}
      aids == {a.account_id : a \in {b \in D.accounts : b.subscription_id = subscription_id}}
      pids == {p.profile_id : p \in {q \in D.profiles : q.account_id \in aids}}
  IN Success([D EXCEPT !.subscriptions = @ \ gone,
                       !.accounts = {a \in @ : a.account_id \notin aids},
                       !.profiles = {p \in @ : p.account_id \notin aids},
                       !.wishlist = {w \in @ : w[1] \notin pids},
                       !.viewing_history = {h \in @ : h.profile_id \notin pids}],
             Cardinality(gone), 0)

\* DELETE FROM subscriptions WHERE subscription_id = %s
\* (accounts.subscription_id: ON DELETE SET NULL)
delete_subscription_row(D, subscription_id) ==
  LET gone == {s \in D.subscriptions : s.subscription_id = subscription_id}
  IN Success([D EXCEPT !.subscriptions = @ \ gone,
                       !.accounts = {IF a.subscription_id = subscription_id /\ gone # {}
                                     THEN [a EXCEPT !.subscription_id = NULL]
                                     ELSE a : a \in @}],
             Cardinality(gone), 0)

\* (mutant) the DELETE without ON DELETE CASCADE
delete_account_row_without_cascade(D, account_id) ==
  LET gone == {a \in D.accounts : a.account_id = account_id}
  IN Success([D EXCEPT !.accounts = @ \ gone], Cardinality(gone), 0)

\* DELETE FROM accounts WHERE account_id = %s
\* (profiles: ON DELETE CASCADE, and with them their wishlist and history rows)
delete_account_row(D, account_id) ==
  LET gone == {a \in D.accounts : a.account_id = account_id}
      pids == {p.profile_id : p \in {q \in D.profiles : q.account_id = account_id}}
  IN Success([D EXCEPT !.accounts = @ \ gone,
                       !.profiles = {p \in @ : p.account_id # account_id},
                       !.wishlist = {w \in @ : w[1] \notin pids},
                       !.viewing_history = {h \in @ : h.profile_id \notin pids}],
             Cardinality(gone), 0)

\* (mutant) the cascade without the viewing-history rows
cascade_content_without_history(D, content_id) ==
  LET sids == {s.season_id : s \in {t \in D.seasons : t.content_id = content_id}}
  IN [D EXCEPT !.seasons = {s \in @ : s.content_id # content_id},
               !.episodes = {e \in @ : e.season_id \notin sids},
               !.media_files = {m \in @ : m.content_id # content_id},
               !.content_genres = {l \in @ : l[1] # content_id},
               !.wishlist = {w \in @ : w[2] # content_id}]

\* The rows ON DELETE CASCADE removes with content row content_id: its seasons
\* and their episodes, its media files, genre links, wishlist and history rows.
cascade_content(D, content_id) ==
  LET sids == {s.season_id : s \in {t \in D.seasons : t.content_id = content_id}}
  IN [D EXCEPT !.seasons = {s \in @ : s.content_id # content_id},
               !.episodes = {e \in @ : e.season_id \notin sids},
               !.media_files = {m \in @ : m.content_id # content_id},
               !.content_genres = {l \in @ : l[1] # content_id},
               !.wishlist = {w \in @ : w[2] # content_id},
               !.viewing_history = {h \in @ : h.content_id # content_id}]

\* DELETE FROM content WHERE content_id = %s
delete_content_row(D, content_id) ==
  LET gone == {c \in D.content : c.content_id = content_id}
  IN IF gone = {} THEN Success(D, 0, 0)
     ELSE Success(cascade_content([D EXCEPT !.content = @ \ gone], content_id), 1, 0)

\* DELETE FROM media_files WHERE media_id = %s
delete_media_row(D, media_id) ==
  LET gone == {m \in D.media_files : m.media_id = media_id}
  IN Success([D EXCEPT !.media_files = @ \ gone], Cardinality(gone), 0)

\* UPDATE genres SET name = %s WHERE genre_id = %s
update_genre_name(D, genre_id, name) ==
  IF genre_id \notin GenreIds(D) THEN Success(D, 0, 0)
  ELSE IF \E g \in D.genres : g.name = name /\ g.genre_id # genre_id
  THEN Failure(D, "duplicate key value violates unique constraint")
  ELSE Success([D EXCEPT !.genres =
          {IF g.genre_id = genre_id THEN [g EXCEPT !.name = name] ELSE g : g \in @}],
          1, 0)

\* DELETE FROM genres WHERE genre_id = %s  (content_genres: ON DELETE CASCADE)
delete_genre_row(D, genre_id) ==
  LET gone == {g \in D.genres : g.genre_id = genre_id}
  IN Success([D EXCEPT !.genres = @ \ gone,
                       !.content_genres = {l \in @ : l[2] # genre_id \/ gone = {}}],
             Cardinality(gone), 0)

\* DELETE FROM content_genres WHERE content_id = %s AND genre_id = %s
delete_content_genre(D, content_id, genre_id) ==
  Success([D EXCEPT !.content_genres = @ \ {<<content_id, genre_id>>}],
          IF <<content_id, genre_id>> \in D.content_genres THEN 1 ELSE 0, 0)

\* (mutant) the UPDATE on a table without UNIQUE (content_id, season_number)
update_season_number_without_unique(D, season_id, season_number) ==
  IF ~FitsInt4(season_number) THEN Failure(D, "integer out of range")
  ELSE IF season_id \notin SeasonIds(D) THEN Success(D, 0, 0)
  ELSE LET row == CHOOSE s \in D.seasons : s.season_id = season_id
       IN Success([D EXCEPT !.seasons =
                  (@ \ {row}) \cup {[row EXCEPT !.season_number = Int4Of(season_number)]}], 1, 0)

\* UPDATE seasons SET season_number = %s WHERE season_id = %s
update_season_number(D, season_id, season_number) ==
  IF ~FitsInt4(season_number) THEN Failure(D, "integer out of range")
  ELSE IF season_id \notin SeasonIds(D) THEN Success(D, 0, 0)
  ELSE LET row == CHOOSE s \in D.seasons : s.season_id = season_id
       IN IF \E s \in D.seasons : /\ s.season_id # season_id
                                  /\ s.content_id = row.content_id
                                  /\ s.season_number = Int4Of(season_number)
          THEN Failure(D, "duplicate key value violates unique constraint")
          ELSE Success([D EXCEPT !.seasons =
                  (@ \ {row}) \cup {[row EXCEPT !.season_number = Int4Of(season_number)]}], 1, 0)

\* DELETE FROM seasons WHERE season_id = %s  (episodes: ON DELETE CASCADE)
delete_season_row(D, season_id) ==
  LET gone == {s \in D.seasons : s.season_id = season_id}
  IN Success([D EXCEPT !.seasons = @ \ gone,
                       !.episodes = {e \in @ : e.season_id # season_id \/ gone = {}}],
             Cardinality(gone), 0)

\* UPDATE episodes SET title = %s WHERE episode_id = %s
update_episode_title(D, episode_id, title) ==
  IF episode_id \notin EpisodeIds(D) THEN Success(D, 0, 0)
  ELSE Success([D EXCEPT !.episodes =
          {IF e.episode_id = episode_id THEN [e EXCEPT !.title = title] ELSE e : e \in @}],
          1, 0)

\* UPDATE episodes SET episode_number = %s WHERE episode_id = %s
update_episode_number(D, episode_id, episode_number) ==
  IF ~FitsInt4(episode_number) THEN Failure(D, "integer out of range")
  ELSE IF episode_id \notin EpisodeIds(D) THEN Success(D, 0, 0)
  ELSE LET row == CHOOSE e \in D.episodes : e.episode_id = episode_id
       IN IF \E e \in D.episodes : /\ e.episode_id # episode_id
                                   /\ e.season_id = row.season_id
                                   /\ e.episode_number = Int4Of(episode_number)
          THEN Failure(D, "duplicate key value violates unique constraint")
          ELSE Success([D EXCEPT !.episodes =
                  (@ \ {row}) \cup {[row EXCEPT !.episode_number = Int4Of(episode_number)]}], 1, 0)

\* DELETE FROM episodes WHERE episode_id = %s
delete_episode_row(D, episode_id) ==
  LET gone == {e \in D.episodes : e.episode_id = episode_id}
  IN Success([D EXCEPT !.episodes = @ \ gone], Cardinality(gone), 0)

\* ------------------------------------------------------------ the seed state
\* populate_seed_data: three plans, one admin, ten genres, three movies and a
\* show with two seasons and five episodes, four genre links, six media files.
\* Prices are in cents.  The two SELECTs without ORDER BY are read in
\* insertion order, the order a sequential scan of a fresh table gives.
SeedSubscriptions ==
  {[subscription_id |-> 1, name |-> "Basic", monthly_price |-> 999, max_profiles |-> 1],
   [subscription_id |-> 2, name |-> "Standard", monthly_price |-> 1599, max_profiles |-> 2],
   [subscription_id |-> 3, name |-> "Premium", monthly_price |-> 1999, max_profiles |-> 4]}

SeedAdmins ==
  {[admin_id |-> 1, username |-> "admin", password_hash |-> hashpw("admin123")]}

SeedGenreNames ==
  <<"Action", "Comedy", "Drama", "Horror", "Sci-Fi",
    "Romance", "Thriller", "Documentary", "Animation", "Fantasy">>

SeedGenres == {[genre_id |-> i, name |-> SeedGenreNames[i]] : i \in 1..Len(SeedGenreNames)}

SeedContent ==
  {[content_id |-> 1, title |-> "The Space Odyssey", type |-> "Movie",
    description |-> "An epic journey through space and time", release_year |-> 2023],
   [content_id |-> 2, title |-> "Midnight Laughter", type |-> "Movie",
    description |-> "A hilarious comedy about late night adventures", release_year |-> 2022],
   [content_id |-> 3, title |-> "The Last Stand", type |-> "Movie",
    description |-> "An action-packed thriller", release_year |-> 2024],
   [content_id |-> 4, title |-> "Cosmic Adventures", type |-> "Show",
    description |-> "A thrilling sci-fi series", release_year |-> 2023]}

SeedSeasons ==
  {[season_id |-> 1, content_id |-> 4, season_number |-> 1],
   [season_id |-> 2, content_id |-> 4, season_number |-> 2]}

SeedEpisodes ==
  {[episode_id |-> 1, season_id |-> 1, title |-> "Pilot", episode_number |-> 1],
   [episode_id |-> 2, season_id |-> 1, title |-> "The Discovery", episode_number |-> 2],
   [episode_id |-> 3, season_id |-> 1, title |-> "New Horizons", episode_number |-> 3],
   [episode_id |-> 4, season_id |-> 2, title |-> "Return Journey", episode_number |-> 1],
   [episode_id |-> 5, season_id |-> 2, title |-> "The Awakening", episode_number |-> 2]}

\* genre_ids = [1 (Action), 2 (Comedy), 5 (Sci-Fi)]: the links are
\* (content_ids[0], genre_ids[0]), (content_ids[1], genre_ids[2]),
\* (content_ids[2], genre_ids[1]), (content_ids[3], genre_ids[0]).
SeedContentGenres == {<<1, 1>>, <<2, 5>>, <<3, 2>>, <<4, 1>>}

SeedMediaFiles ==
  {[media_id |-> 2 * c - 1, content_id |-> c, resolution |-> "1080p",
    language |-> "English",
    file_path |-> "/media/content_" \o ToString(c) \o "_1080p_en.mp4"] : c \in 1..3}
  \cup
  {[media_id |-> 2 * c, content_id |-> c, resolution |-> "720p",
    language |-> "English",
    file_path |-> "/media/content_" \o ToString(c) \o "_720p_en.mp4"] : c \in 1..3}

SeedSeq ==
  [subscriptions |-> 4, accounts |-> 1, admins |-> 2, profiles |-> 1, content |-> 5,
   genres |-> 11, media_files |-> 7, seasons |-> 3, episodes |-> 6]

\* The two requests that may be in service at the same time.
Threads == {1, 2}

NoHeader == [present |-> FALSE]

NoRequest ==
  [op |-> "", hdr |-> NoHeader, req |-> <<>>, status |-> 0, body |-> <<>>,
   invoked |-> FALSE, repeat |-> FALSE]

\* setup_database.py has not been started.  events: the connection attempts
\* and sleeps of wait_for_db; ready: what wait_for_db returned; dropped and
\* created: the tables of the DROP and CREATE statements executed, in
\* order; done: the steps of main that completed; exit: what main returned.
NoSetup ==
  [pc |-> "idle", fn |-> "", max_retries |-> 0, delay |-> 0, attempt |-> 0,
   events |-> <<>>, ready |-> "", connected |-> FALSE, dropped |-> <<>>,
   created |-> <<>>, done |-> <<>>, exit |-> -1]

\* A thread that serves no request: no connection, nothing written.
NoWrites == [accounts |-> {}, profiles |-> {}, wishlist |-> {}, viewing_history |-> {}]

IdleThread ==
  [pc |-> "idle", op |-> "", hdr |-> NoHeader, req |-> <<>>, id |-> 0, open |-> FALSE,
   writes |-> NoWrites, stmt |-> Success(<<>>, 0, 0), kind |-> "",
   status |-> 0, body |-> <<>>]

Init ==
  /\ subscriptions = SeedSubscriptions
  /\ accounts = {}
  /\ admins = SeedAdmins
  /\ profiles = {}
  /\ content = SeedContent
  /\ genres = SeedGenres
  /\ content_genres = SeedContentGenres
  /\ media_files = SeedMediaFiles
  /\ seasons = SeedSeasons
  /\ episodes = SeedEpisodes
  /\ wishlist = {}
  /\ viewing_history = {}
  /\ seq = SeedSeq
  /\ now = 0
  /\ issued = {}
  /\ last = NoRequest
  /\ proc = [p \in Threads |-> IdleThread]
  /\ setup = NoSetup

\* ---------------------------------------------------------------- responses
\* What a handler returns: the database it leaves, and jsonify(body), status.
Resp(D, status, body) == [db |-> D, status |-> status, body |-> body, invoked |-> TRUE]

Error(D, status, message) == Resp(D, status, [error |-> message])

Message(D, status, message) == Resp(D, status, [message |-> message])

\* data.get(k) is None: the key is absent from the JSON body.
Has(data, k) == k \in DOMAIN data

\* Python truth of data.get(k) for a string and for a number.
TruthyStr(data, k) == Has(data, k) /\ data[k] # ""

TruthyInt(data, k) == Has(data, k) /\ data[k] # 0

TruthyJsonInt(data, k) == Has(data, k) /\ data[k] # JsonInt(0, 0)

\* ------------------------------------------------------------------- guards
\* An Authorization header: absent, or a string that is an optional
\* 'Bearer ' prefix followed by a token (a JWT, an empty string or garbage).
\* `not token`: no header, or the empty string.
header_missing(hdr) == ~hdr.present \/ (~hdr.bearer /\ hdr.token.fmt = "empty")

\* (mutant) token_required taking the id of whatever principal the token names
token_required_any_principal(hdr, t) ==
  IF header_missing(hdr)
  THEN [pass |-> FALSE, status |-> 401, error |-> "Token is missing"]
  ELSE IF ~jwt_decode_ok(hdr.token, SECRET_KEY, t)
  THEN [pass |-> FALSE, status |-> 401, error |-> "Token is invalid"]
  ELSE [pass |-> TRUE,
        id |-> IF "account_id" \in DOMAIN hdr.token.payload
               THEN hdr.token.payload.account_id ELSE hdr.token.payload.admin_id]

\* token_required, up to the call of the wrapped handler.
token_required(hdr, t) ==
  IF header_missing(hdr)
  THEN [pass |-> FALSE, status |-> 401, error |-> "Token is missing"]
  ELSE IF ~jwt_decode_ok(hdr.token, SECRET_KEY, t)
          \/ "account_id" \notin DOMAIN hdr.token.payload
  THEN [pass |-> FALSE, status |-> 401, error |-> "Token is invalid"]
  ELSE [pass |-> TRUE, id |-> hdr.token.payload.account_id]

\* (mutant) admin_token_required without its test of is_admin
admin_token_required_any_principal(hdr, t) ==
  IF header_missing(hdr)
  THEN [pass |-> FALSE, status |-> 401, error |-> "Token is missing"]
  ELSE IF ~jwt_decode_ok(hdr.token, SECRET_KEY, t)
  THEN [pass |-> FALSE, status |-> 401, error |-> "Token is invalid"]
  ELSE IF "admin_id" \notin DOMAIN hdr.token.payload
  THEN [pass |-> FALSE, status |-> 401, error |-> "Token is invalid"]
  ELSE [pass |-> TRUE, id |-> hdr.token.payload.admin_id]

\* admin_token_required, up to the call of the wrapped handler.
admin_token_required(hdr, t) ==
  IF header_missing(hdr)
  THEN [pass |-> FALSE, status |-> 401, error |-> "Token is missing"]
  ELSE IF ~jwt_decode_ok(hdr.token, SECRET_KEY, t)
  THEN [pass |-> FALSE, status |-> 401, error |-> "Token is invalid"]
  ELSE IF ~("is_admin" \in DOMAIN hdr.token.payload /\ hdr.token.payload.is_admin)
  THEN [pass |-> FALSE, status |-> 403, error |-> "Admin access required"]
  ELSE IF "admin_id" \notin DOMAIN hdr.token.payload
  THEN [pass |-> FALSE, status |-> 401, error |-> "Token is invalid"]
  ELSE [pass |-> TRUE, id |-> hdr.token.payload.admin_id]

\* decorated(*args): the guard's own response, or the handler's.
decorated(D, g, r) ==
  IF g.pass THEN r
  ELSE [db |-> D, status |-> g.status, body |-> [error |-> g.error], invoked |-> FALSE]

\* ------------------------------------------------- authentication handlers
account_token(account_id, t) ==
  jwt_encode([account_id |-> account_id, exp |-> t + AccountTokenDays], SECRET_KEY)

admin_token(admin_id, t) ==
  jwt_encode([admin_id |-> admin_id, is_admin |-> TRUE, exp |-> t + AdminTokenDays],
             SECRET_KEY)

\* (mutant) register without its look-up of the email: the INSERT meets the
\* UNIQUE constraint instead
register_without_email_check(D, data, t) ==
  IF ~TruthyStr(data, "email") \/ ~TruthyStr(data, "password")
  THEN Error(D, 400, "Email and password required")
  ELSE IF ~TruthyInt(data, "subscription_id")
  THEN Error(D, 400, "subscription_id required")
  ELSE IF data.subscription_id \notin SubscriptionIds(D)
  THEN Error(D, 404, "Subscription not found")
  ELSE LET r == insert_account(D, data.email, hashpw(data.password), data.subscription_id)
       IN IF ~r.ok THEN Error(rollback(D, r.db), 500, r.err)
          ELSE Resp(commit(D, r.db), 201,
                    [account_id |-> r.returning, email |-> data.email,
                     subscription_id |-> data.subscription_id,
                     token |-> account_token(r.returning, t)])

\* (mutant) a register that leaves the plan to the foreign key
register_without_plan_check(D, data, t) ==
  IF ~TruthyStr(data, "email") \/ ~TruthyStr(data, "password")
  THEN Error(D, 400, "Email and password required")
  ELSE IF ~TruthyInt(data, "subscription_id")
  THEN Error(D, 400, "subscription_id required")
  ELSE IF \E a \in D.accounts : a.email = data.email
  THEN Error(D, 400, "Email already exists")
  ELSE LET r == insert_account(D, data.email, hashpw(data.password), data.subscription_id)
       IN IF ~r.ok THEN Error(rollback(D, r.db), 500, r.err)
          ELSE Resp(commit(D, r.db), 201,
                    [account_id |-> r.returning, email |-> data.email,
                     subscription_id |-> data.subscription_id,
                     token |-> account_token(r.returning, t)])

register(D, data, t) ==
  IF ~TruthyStr(data, "email") \/ ~TruthyStr(data, "password")
  THEN Error(D, 400, "Email and password required")
  ELSE IF ~TruthyInt(data, "subscription_id")
  THEN Error(D, 400, "subscription_id required")
  ELSE IF \E a \in D.accounts : a.email = data.email
  THEN Error(D, 400, "Email already exists")
  ELSE IF data.subscription_id \notin SubscriptionIds(D)
  THEN Error(D, 404, "Subscription not found")
  ELSE LET r == insert_account(D, data.email, hashpw(data.password), data.subscription_id)
       IN IF ~r.ok THEN Error(rollback(D, r.db), 500, r.err)
          ELSE Resp(commit(D, r.db), 201,
                    [account_id |-> r.returning, email |-> data.email,
                     subscription_id |-> data.subscription_id,
                     token |-> account_token(r.returning, t)])

\* (mutant) a login that tells an unknown email from a wrong password
login_naming_unknown_email(D, data, t) ==
  IF ~TruthyStr(data, "email") \/ ~TruthyStr(data, "password")
  THEN Error(D, 400, "Email and password required")
  ELSE LET found == {a \in D.accounts : a.email = data.email}
       IN IF found = {}
          THEN Error(D, 401, "No account with that email")
          ELSE IF \A a \in found : ~checkpw(data.password, a.password_hash)
          THEN Error(D, 401, "Invalid credentials")
          ELSE LET account == CHOOSE a \in found : TRUE
               IN Resp(D, 200,
                       [account_id |-> account.account_id, email |-> account.email,
                        subscription_id |-> account.subscription_id,
                        token |-> account_token(account.account_id, t)])

login(D, data, t) ==
  IF ~TruthyStr(data, "email") \/ ~TruthyStr(data, "password")
  THEN Error(D, 400, "Email and password required")
  ELSE LET found == {a \in D.accounts : a.email = data.email}
       IN IF found = {} \/ \A a \in found : ~checkpw(data.password, a.password_hash)
          THEN Error(D, 401, "Invalid credentials")
          ELSE LET account == CHOOSE a \in found : TRUE
               IN Resp(D, 200,
                       [account_id |-> account.account_id, email |-> account.email,
                        subscription_id |-> account.subscription_id,
                        token |-> account_token(account.account_id, t)])

logout(D, current_account_id) == Message(D, 200, "Logged out")

\* dict(account) with account None raises TypeError outside any except clause.
get_me(D, current_account_id) ==
  LET found == {a \in D.accounts : a.account_id = current_account_id}
  IN IF found = {} THEN Resp(D, 500, [exception |-> "TypeError"])
     ELSE LET account == CHOOSE a \in found : TRUE
          IN Resp(D, 200, [account_id |-> account.account_id, email |-> account.email,
                           subscription_id |-> account.subscription_id])

get_account(D, current_account_id) ==
  LET found == {a \in D.accounts : a.account_id = current_account_id}
  IN IF found = {} THEN Resp(D, 500, [exception |-> "TypeError"])
     ELSE LET account == CHOOSE a \in found : TRUE
          IN Resp(D, 200, [account_id |-> account.account_id, email |-> account.email,
                           subscription_id |-> account.subscription_id])

update_account(D, current_account_id, data) ==
  LET r1 == IF TruthyStr(data, "email")
            THEN update_account_email(D, current_account_id, data.email)
            ELSE Success(D, 0, 0)
      r2 == IF r1.ok /\ TruthyStr(data, "password")
            THEN update_account_password(r1.db, current_account_id, hashpw(data.password))
            ELSE r1
  IN IF r2.ok THEN Message(commit(D, r2.db), 200, "Account updated")
     ELSE Error(rollback(D, r2.db), 500, r2.err)

get_subscription(D, current_account_id) ==
  LET found == {s \in D.subscriptions :
                  \E a \in D.accounts : /\ a.account_id = current_account_id
                                        /\ a.subscription_id = s.subscription_id}
  IN IF found = {} THEN Error(D, 404, "No subscription found")
     ELSE Resp(D, 200, CHOOSE s \in found : TRUE)

update_subscription(D, current_account_id, data) ==
  IF ~TruthyInt(data, "subscription_id")
  THEN Error(D, 400, "subscription_id required")
  ELSE IF data.subscription_id \notin SubscriptionIds(D)
  THEN Error(D, 404, "Subscription not found")
  ELSE LET r == update_account_subscription(D, current_account_id, data.subscription_id)
       IN IF r.ok THEN Message(commit(D, r.db), 200, "Subscription updated")
          ELSE Error(rollback(D, r.db), 500, r.err)

\* ---------------------------------------------------------- profile handlers
\* (mutant) the ownership check without its account_id condition
owned_profile_any_account(D, profile_id, account_id) ==
  {p \in D.profiles : p.profile_id = profile_id}

\* SELECT profile_id FROM profiles WHERE profile_id = %s AND account_id = %s
owned_profile(D, profile_id, account_id) ==
  {p \in D.profiles : p.profile_id = profile_id /\ p.account_id = account_id}

get_profiles(D, current_account_id) ==
  Resp(D, 200, [items |-> {p \in D.profiles : p.account_id = current_account_id}])

\* The row of the limit query (accounts LEFT JOIN subscriptions LEFT JOIN
\* profiles, grouped): none when the account is gone; max_profiles is NULL
\* when the account has no plan.  The request is refused when
\* result and result['max_profiles'] and current_profiles >= max_profiles.
profile_limit_reached(D, current_account_id) ==
  \E a \in D.accounts :
    /\ a.account_id = current_account_id
    /\ \E s \in D.subscriptions :
         /\ s.subscription_id = a.subscription_id
         /\ s.max_profiles # 0
         /\ Cardinality({p \in D.profiles : p.account_id = a.account_id}) >= s.max_profiles

create_profile(D, current_account_id, data) ==
  IF ~TruthyStr(data, "name") \/ ~TruthyStr(data, "age_rating_pref")
  THEN Error(D, 400, "name and age_rating_pref required")
  ELSE IF profile_limit_reached(D, current_account_id)
  THEN Error(D, 400, "Profile limit reached")
  ELSE LET r == insert_profile(D, current_account_id, data.name, data.age_rating_pref)
       IN IF ~r.ok THEN Error(rollback(D, r.db), 500, r.err)
          ELSE Resp(commit(D, r.db), 201,
                    [profile_id |-> r.returning, name |-> data.name,
                     age_rating_pref |-> data.age_rating_pref])

get_profile(D, current_account_id, profile_id) ==
  LET found == owned_profile(D, profile_id, current_account_id)
  IN IF found = {} THEN Error(D, 404, "Profile not found")
     ELSE LET p == CHOOSE q \in found : TRUE
          IN Resp(D, 200, [profile_id |-> p.profile_id, name |-> p.name,
                           age_rating_pref |-> p.age_rating_pref])

update_profile(D, current_account_id, profile_id, data) ==
  IF owned_profile(D, profile_id, current_account_id) = {}
  THEN Error(D, 404, "Profile not found")
  ELSE LET r1 == IF TruthyStr(data, "name")
                 THEN update_profile_name(D, profile_id, data.name)
                 ELSE Success(D, 0, 0)
           r2 == IF r1.ok /\ TruthyStr(data, "age_rating_pref")
                 THEN update_profile_age_rating(r1.db, profile_id, data.age_rating_pref)
                 ELSE r1
       IN IF r2.ok THEN Message(commit(D, r2.db), 200, "Profile updated")
          ELSE Error(rollback(D, r2.db), 500, r2.err)

delete_profile(D, current_account_id, profile_id) ==
  LET r == delete_profile_row(D, profile_id, current_account_id)
  IN IF r.rowcount = 0 THEN Error(rollback(D, r.db), 404, "Profile not found")
     ELSE Message(commit(D, r.db), 200, "Profile deleted")

\* --------------------------------------------------------- wishlist handlers
get_wishlist(D, current_account_id, profile_id) ==
  IF owned_profile(D, profile_id, current_account_id) = {}
  THEN Error(D, 404, "Profile not found")
  ELSE Resp(D, 200,
            [items |-> {[content_id |-> c.content_id, title |-> c.title] :
                          c \in {x \in D.content :
                                   <<profile_id, x.content_id>> \in D.wishlist}}])

add_to_wishlist(D, current_account_id, profile_id, content_id) ==
  IF owned_profile(D, profile_id, current_account_id) = {}
  THEN Error(D, 404, "Profile not found")
  ELSE LET r == insert_wishlist(D, profile_id, content_id)
       IN IF r.ok THEN Message(commit(D, r.db), 201, "Added to wishlist")
          ELSE Error(rollback(D, r.db), 500, r.err)

remove_from_wishlist(D, current_account_id, profile_id, content_id) ==
  IF owned_profile(D, profile_id, current_account_id) = {}
  THEN Error(D, 404, "Profile not found")
  ELSE LET r == delete_wishlist_row(D, profile_id, content_id)
       IN IF r.ok THEN Message(commit(D, r.db), 200, "Removed from wishlist")
          ELSE Error(rollback(D, r.db), 500, r.err)

\* -------------------------------------------------- viewing-history handlers
get_history(D, current_account_id, profile_id) ==
  IF owned_profile(D, profile_id, current_account_id) = {}
  THEN Error(D, 404, "Profile not found")
  ELSE Resp(D, 200,
            [items |-> {[content_id |-> h.content_id, last_timestamp |-> h.last_timestamp] :
                          h \in {x \in D.viewing_history : x.profile_id = profile_id}}])

get_history_item(D, current_account_id, profile_id, content_id) ==
  IF owned_profile(D, profile_id, current_account_id) = {}
  THEN Error(D, 404, "Profile not found")
  ELSE LET found == {h \in D.viewing_history :
                       h.profile_id = profile_id /\ h.content_id = content_id}
       IN IF found = {} THEN Error(D, 404, "History not found")
          ELSE LET h == CHOOSE x \in found : TRUE
               IN Resp(D, 200, [content_id |-> h.content_id,
                                last_timestamp |-> h.last_timestamp])

update_history(D, current_account_id, profile_id, content_id, data) ==
  IF ~Has(data, "last_timestamp")
  THEN Error(D, 400, "last_timestamp required")
  ELSE IF owned_profile(D, profile_id, current_account_id) = {}
  THEN Error(D, 404, "Profile not found")
  ELSE LET r == upsert_viewing_history(D, profile_id, content_id, data.last_timestamp)
       IN IF r.ok THEN Message(commit(D, r.db), 200, "History updated")
          ELSE Error(rollback(D, r.db), 500, r.err)

delete_history(D, current_account_id, profile_id, content_id) ==
  IF owned_profile(D, profile_id, current_account_id) = {}
  THEN Error(D, 404, "Profile not found")
  ELSE LET r == delete_history_row(D, profile_id, content_id)
       IN IF r.ok THEN Message(commit(D, r.db), 200, "History removed")
          ELSE Error(rollback(D, r.db), 500, r.err)

\* ------------------------------------------------------------ admin handlers
admin_login(D, data, t) ==
  IF ~TruthyStr(data, "username") \/ ~TruthyStr(data, "password")
  THEN Error(D, 400, "Username and password required")
  ELSE LET found == {a \in D.admins : a.username = data.username}
       IN IF found = {} \/ \A a \in found : ~checkpw(data.password, a.password_hash)
          THEN Error(D, 401, "Invalid credentials")
          ELSE LET admin == CHOOSE a \in found : TRUE
               IN Resp(D, 200, [admin_id |-> admin.admin_id,
                                token |-> admin_token(admin.admin_id, t)])

admin_logout(D, current_admin_id) == Message(D, 200, "Logged out")

get_admin_subscriptions(D, current_admin_id) == Resp(D, 200, [items |-> D.subscriptions])

create_subscription(D, current_admin_id, data) ==
  IF ~TruthyStr(data, "name") \/ ~Has(data, "max_profiles") \/ ~Has(data, "monthly_price")
  THEN Error(D, 400, "name, max_profiles, and monthly_price required")
  ELSE LET r == insert_subscription(D, data.name, data.max_profiles, data.monthly_price)
       IN IF ~r.ok THEN Error(rollback(D, r.db), 500, r.err)
          ELSE Resp(commit(D, r.db), 201, [subscription_id |-> r.returning])

get_subscription_by_id(D, current_admin_id, subscription_id) ==
  LET found == {s \in D.subscriptions : s.subscription_id = subscription_id}
  IN IF found = {} THEN Error(D, 404, "Subscription not found")
     ELSE Resp(D, 200, CHOOSE s \in found : TRUE)

update_subscription_plan(D, current_admin_id, subscription_id, data) ==
  LET r1 == IF TruthyStr(data, "name")
            THEN update_subscription_name(D, subscription_id, data.name)
            ELSE Success(D, 0, 0)
      r2 == IF r1.ok /\ Has(data, "max_profiles")
            THEN update_subscription_max_profiles(r1.db, subscription_id, data.max_profiles)
            ELSE r1
      r3 == IF r2.ok /\ Has(data, "monthly_price")
            THEN update_subscription_price(r2.db, subscription_id, data.monthly_price)
            ELSE r2
  IN IF r3.ok THEN Message(commit(D, r3.db), 200, "Subscription plan updated")
     ELSE Error(rollback(D, r3.db), 500, r3.err)

\* (mutant) a DELETE handler that does not look at cur.rowcount
delete_subscription_plan_ignoring_rowcount(D, current_admin_id, subscription_id) ==
  LET r == delete_subscription_row(D, subscription_id)
  IN Message(commit(D, r.db), 200, "Subscription plan deleted")

delete_subscription_plan(D, current_admin_id, subscription_id) ==
  LET r == delete_subscription_row(D, subscription_id)
  IN IF r.rowcount = 0 THEN Error(rollback(D, r.db), 404, "Subscription not found")
     ELSE Message(commit(D, r.db), 200, "Subscription plan deleted")

get_all_accounts(D, current_admin_id) ==
  Resp(D, 200, [items |-> {[account_id |-> a.account_id, email |-> a.email,
                            subscription_id |-> a.subscription_id] : a \in D.accounts}])

get_account_by_id(D, current_admin_id, account_id) ==
  LET found == {a \in D.accounts : a.account_id = account_id}
  IN IF found = {} THEN Error(D, 404, "Account not found")
     ELSE LET a == CHOOSE x \in found : TRUE
          IN Resp(D, 200, [account_id |-> a.account_id, email |-> a.email,
                           subscription_id |-> a.subscription_id])

admin_update_account(D, current_admin_id, account_id, data) ==
  LET r1 == IF TruthyStr(data, "email")
            THEN update_account_email(D, account_id, data.email)
            ELSE Success(D, 0, 0)
      r2 == IF r1.ok /\ Has(data, "subscription_id")
            THEN update_account_subscription(r1.db, account_id, data.subscription_id)
            ELSE r1
  IN IF r2.ok THEN Message(commit(D, r2.db), 200, "Account updated")
     ELSE Error(rollback(D, r2.db), 500, r2.err)

delete_account(D, current_admin_id, account_id) ==
  LET r == delete_account_row(D, account_id)
  IN IF r.rowcount = 0 THEN Error(rollback(D, r.db), 404, "Account not found")
     ELSE Message(commit(D, r.db), 200, "Account deleted")

admin_get_content(D, current_admin_id) ==
  Resp(D, 200, [items |-> {[content_id |-> c.content_id, title |-> c.title,
                            type |-> c.type] : c \in D.content}])

\* (mutant) create_content leaving the test of the type to the table
create_content_without_type_test(D, current_admin_id, data) ==
  IF \/ ~TruthyStr(data, "title") \/ ~TruthyStr(data, "type")
     \/ ~TruthyStr(data, "description") \/ ~TruthyJsonInt(data, "release_year")
  THEN Error(D, 400, "title, type, description, and release_year required")
  ELSE LET r == insert_content(D, data.title, data.type, data.description,
                               data.release_year)
       IN IF ~r.ok THEN Error(rollback(D, r.db), 500, r.err)
          ELSE Resp(commit(D, r.db), 201, [content_id |-> r.returning])

create_content(D, current_admin_id, data) ==
  IF \/ ~TruthyStr(data, "title") \/ ~TruthyStr(data, "type")
     \/ ~TruthyStr(data, "description") \/ ~TruthyJsonInt(data, "release_year")
  THEN Error(D, 400, "title, type, description, and release_year required")
  ELSE IF data.type \notin {"Movie", "Show"}
  THEN Error(D, 400, "type must be Movie or Show")
  ELSE LET r == insert_content(D, data.title, data.type, data.description,
                               data.release_year)
       IN IF ~r.ok THEN Error(rollback(D, r.db), 500, r.err)
          ELSE Resp(commit(D, r.db), 201, [content_id |-> r.returning])

admin_get_content_by_id(D, current_admin_id, content_id) ==
  LET found == {c \in D.content : c.content_id = content_id}
  IN IF found = {} THEN Error(D, 404, "Content not found")
     ELSE Resp(D, 200, CHOOSE c \in found : TRUE)

admin_update_content(D, current_admin_id, content_id, data) ==
  LET r1 == IF TruthyStr(data, "title")
            THEN update_content_title(D, content_id, data.title)
            ELSE Success(D, 0, 0)
      r2 == IF r1.ok /\ TruthyStr(data, "description")
            THEN update_content_description(r1.db, content_id, data.description)
            ELSE r1
      r3 == IF r2.ok /\ Has(data, "release_year")
            THEN update_content_release_year(r2.db, content_id, data.release_year)
            ELSE r2
  IN IF r3.ok THEN Message(commit(D, r3.db), 200, "Content updated")
     ELSE Error(rollback(D, r3.db), 500, r3.err)

admin_delete_content(D, current_admin_id, content_id) ==
  LET r == delete_content_row(D, content_id)
  IN IF r.rowcount = 0 THEN Error(rollback(D, r.db), 404, "Content not found")
     ELSE Message(commit(D, r.db), 200, "Content deleted")

create_media_file(D, current_admin_id, content_id, data) ==
  IF \/ ~TruthyStr(data, "resolution") \/ ~TruthyStr(data, "language")
     \/ ~TruthyStr(data, "file_path")
  THEN Error(D, 400, "resolution, language, and file_path required")
  ELSE LET r == insert_media_file(D, content_id, data.resolution, data.language,
                                  data.file_path)
       IN IF ~r.ok THEN Error(rollback(D, r.db), 500, r.err)
          ELSE Resp(commit(D, r.db), 201, [media_id |-> r.returning])

delete_media_file(D, current_admin_id, media_id) ==
  LET r == delete_media_row(D, media_id)
  IN IF r.rowcount = 0 THEN Error(rollback(D, r.db), 404, "Media file not found")
     ELSE Message(commit(D, r.db), 200, "Media file deleted")

get_genres(D, current_admin_id) == Resp(D, 200, [items |-> D.genres])

create_genre(D, current_admin_id, data) ==
  IF ~TruthyStr(data, "name") THEN Error(D, 400, "name required")
  ELSE LET r == insert_genre(D, data.name)
       IN IF ~r.ok THEN Error(rollback(D, r.db), 500, r.err)
          ELSE Resp(commit(D, r.db), 201, [genre_id |-> r.returning])

update_genre(D, current_admin_id, genre_id, data) ==
  IF ~TruthyStr(data, "name") THEN Error(D, 400, "name required")
  ELSE LET r == update_genre_name(D, genre_id, data.name)
       IN IF r.ok THEN Message(commit(D, r.db), 200, "Genre updated")
          ELSE Error(rollback(D, r.db), 500, r.err)

delete_genre(D, current_admin_id, genre_id) ==
  LET r == delete_genre_row(D, genre_id)
  IN IF r.rowcount = 0 THEN Error(rollback(D, r.db), 404, "Genre not found")
     ELSE Message(commit(D, r.db), 200, "Genre deleted")

link_genre_to_content(D, current_admin_id, content_id, genre_id) ==
  LET r == insert_content_genre(D, content_id, genre_id)
  IN IF r.ok THEN Message(commit(D, r.db), 201, "Genre linked to content")
     ELSE Error(rollback(D, r.db), 500, r.err)

unlink_genre_from_content(D, current_admin_id, content_id, genre_id) ==
  LET r == delete_content_genre(D, content_id, genre_id)
  IN IF r.ok THEN Message(commit(D, r.db), 200, "Genre unlinked from content")
     ELSE Error(rollback(D, r.db), 500, r.err)

create_season(D, current_admin_id, content_id, data) ==
  IF ~Has(data, "season_number") THEN Error(D, 400, "season_number required")
  ELSE LET r == insert_season(D, content_id, data.season_number)
       IN IF ~r.ok THEN Error(rollback(D, r.db), 500, r.err)
          ELSE Resp(commit(D, r.db), 201, [season_id |-> r.returning])

update_season(D, current_admin_id, season_id, data) ==
  IF ~Has(data, "season_number") THEN Error(D, 400, "season_number required")
  ELSE LET r == update_season_number(D, season_id, data.season_number)
       IN IF r.ok THEN Message(commit(D, r.db), 200, "Season updated")
          ELSE Error(rollback(D, r.db), 500, r.err)

delete_season(D, current_admin_id, season_id) ==
  LET r == delete_season_row(D, season_id)
  IN IF r.rowcount = 0 THEN Error(rollback(D, r.db), 404, "Season not found")
     ELSE Message(commit(D, r.db), 200, "Season deleted")

create_episode(D, current_admin_id, season_id, data) ==
  IF ~TruthyStr(data, "title") \/ ~Has(data, "episode_number")
  THEN Error(D, 400, "title and episode_number required")
  ELSE LET r == insert_episode(D, season_id, data.title, data.episode_number)
       IN IF ~r.ok THEN Error(rollback(D, r.db), 500, r.err)
          ELSE Resp(commit(D, r.db), 201, [episode_id |-> r.returning])

update_episode(D, current_admin_id, episode_id, data) ==
  LET r1 == IF TruthyStr(data, "title")
            THEN update_episode_title(D, episode_id, data.title)
            ELSE Success(D, 0, 0)
      r2 == IF r1.ok /\ Has(data, "episode_number")
            THEN update_episode_number(r1.db, episode_id, data.episode_number)
            ELSE r1
  IN IF r2.ok THEN Message(commit(D, r2.db), 200, "Episode updated")
     ELSE Error(rollback(D, r2.db), 500, r2.err)

delete_episode(D, current_admin_id, episode_id) ==
  LET r == delete_episode_row(D, episode_id)
  IN IF r.rowcount = 0 THEN Error(rollback(D, r.db), 404, "Episode not found")
     ELSE Message(commit(D, r.db), 200, "Episode deleted")

\* ------------------------------------------------------------------ routing
\* The routes behind @token_required, by handler name; req holds the URL
\* parameters and, under data, the JSON body.
account_route(op, D, current_account_id, req) ==
  CASE op = "logout" -> logout(D, current_account_id)
    [] op = "get_me" -> get_me(D, current_account_id)
    [] op = "get_account" -> get_account(D, current_account_id)
    [] op = "update_account" -> update_account(D, current_account_id, req.data)
    [] op = "get_subscription" -> get_subscription(D, current_account_id)
    [] op = "update_subscription" -> update_subscription(D, current_account_id, req.data)
    [] op = "get_profiles" -> get_profiles(D, current_account_id)
    [] op = "create_profile" -> create_profile(D, current_account_id, req.data)
    [] op = "get_profile" -> get_profile(D, current_account_id, req.profile_id)
    [] op = "update_profile" ->
         update_profile(D, current_account_id, req.profile_id, req.data)
    [] op = "delete_profile" -> delete_profile(D, current_account_id, req.profile_id)
    [] op = "get_wishlist" -> get_wishlist(D, current_account_id, req.profile_id)
    [] op = "add_to_wishlist" ->
         add_to_wishlist(D, current_account_id, req.profile_id, req.content_id)
    [] op = "remove_from_wishlist" ->
         remove_from_wishlist(D, current_account_id, req.profile_id, req.content_id)
    [] op = "get_history" -> get_history(D, current_account_id, req.profile_id)
    [] op = "get_history_item" ->
         get_history_item(D, current_account_id, req.profile_id, req.content_id)
    [] op = "update_history" ->
         update_history(D, current_account_id, req.profile_id, req.content_id, req.data)
    [] op = "delete_history" ->
         delete_history(D, current_account_id, req.profile_id, req.content_id)

\* The routes behind @admin_token_required.
admin_route(op, D, current_admin_id, req) ==
  CASE op = "admin_logout" -> admin_logout(D, current_admin_id)
    [] op = "get_admin_subscriptions" -> get_admin_subscriptions(D, current_admin_id)
    [] op = "create_subscription" -> create_subscription(D, current_admin_id, req.data)
    [] op = "get_subscription_by_id" ->
         get_subscription_by_id(D, current_admin_id, req.subscription_id)
    [] op = "update_subscription_plan" ->
         update_subscription_plan(D, current_admin_id, req.subscription_id, req.data)
    [] op = "delete_subscription_plan" ->
         delete_subscription_plan(D, current_admin_id, req.subscription_id)
    [] op = "get_all_accounts" -> get_all_accounts(D, current_admin_id)
    [] op = "get_account_by_id" -> get_account_by_id(D, current_admin_id, req.account_id)
    [] op = "admin_update_account" ->
         admin_update_account(D, current_admin_id, req.account_id, req.data)
    [] op = "delete_account" -> delete_account(D, current_admin_id, req.account_id)
    [] op = "admin_get_content" -> admin_get_content(D, current_admin_id)
    [] op = "create_content" -> create_content(D, current_admin_id, req.data)
    [] op = "admin_get_content_by_id" ->
         admin_get_content_by_id(D, current_admin_id, req.content_id)
    [] op = "admin_update_content" ->
         admin_update_content(D, current_admin_id, req.content_id, req.data)
    [] op = "admin_delete_content" ->
         admin_delete_content(D, current_admin_id, req.content_id)
    [] op = "create_media_file" ->
         create_media_file(D, current_admin_id, req.content_id, req.data)
    [] op = "delete_media_file" -> delete_media_file(D, current_admin_id, req.media_id)
    [] op = "get_genres" -> get_genres(D, current_admin_id)
    [] op = "create_genre" -> create_genre(D, current_admin_id, req.data)
    [] op = "update_genre" -> update_genre(D, current_admin_id, req.genre_id, req.data)
    [] op = "delete_genre" -> delete_genre(D, current_admin_id, req.genre_id)
    [] op = "link_genre_to_content" ->
         link_genre_to_content(D, current_admin_id, req.content_id, req.genre_id)
    [] op = "unlink_genre_from_content" ->
         unlink_genre_from_content(D, current_admin_id, req.content_id, req.genre_id)
    [] op = "create_season" -> create_season(D, current_admin_id, req.content_id, req.data)
    [] op = "update_season" -> update_season(D, current_admin_id, req.season_id, req.data)
    [] op = "delete_season" -> delete_season(D, current_admin_id, req.season_id)
    [] op = "create_episode" -> create_episode(D, current_admin_id, req.season_id, req.data)
    [] op = "update_episode" -> update_episode(D, current_admin_id, req.episode_id, req.data)
    [] op = "delete_episode" -> delete_episode(D, current_admin_id, req.episode_id)

\* A request to a route behind @token_required: the guard, then the handler.
account_request(op, D, hdr, req, t) ==
  decorated(D, token_required(hdr, t),
            account_route(op, D, token_required(hdr, t).id, req))

\* A request to a route behind @admin_token_required.
admin_request(op, D, hdr, req, t) ==
  decorated(D, admin_token_required(hdr, t),
            admin_route(op, D, admin_token_required(hdr, t).id, req))

\* ------------------------------------------------------------------ actions
\* The sequences stay within the bounds of the model.
SeqBounded(q) ==
  /\ q.accounts <= MaxAccountId + 1
  /\ q.subscriptions <= MaxSubscriptionId + 1
  /\ q.content <= MaxContentId + 1
  /\ q.seasons <= MaxSeasonId + 1
  /\ q.episodes <= MaxEpisodeId + 1
  /\ q.media_files <= MaxMediaId + 1
  /\ q.genres <= MaxGenreId + 1

\* One request served from its arrival to its response.  repeat says that
\* the request is the one served just before, which had the same response.
Serve(op, hdr, req, r) ==
  /\ SeqBounded(r.db.seq)
  /\ subscriptions' = r.db.subscriptions
  /\ accounts' = r.db.accounts
  /\ admins' = r.db.admins
  /\ profiles' = r.db.profiles
  /\ content' = r.db.content
  /\ genres' = r.db.genres
  /\ content_genres' = r.db.content_genres
  /\ media_files' = r.db.media_files
  /\ seasons' = r.db.seasons
  /\ episodes' = r.db.episodes
  /\ wishlist' = r.db.wishlist
  /\ viewing_history' = r.db.viewing_history
  /\ seq' = r.db.seq
  /\ now' = now
  /\ issued' = IF "token" \in DOMAIN r.body THEN issued \cup {r.body.token} ELSE issued
  /\ last' = [op |-> op, hdr |-> hdr, req |-> req, status |-> r.status,
              body |-> r.body, invoked |-> r.invoked,
              repeat |-> (last.op = op /\ last.hdr = hdr /\ last.req = req
                          /\ last.status = r.status)]
  /\ proc' = proc
  /\ setup' = setup

Bearer(token) == [present |-> TRUE, bearer |-> TRUE, token |-> token]

Bare(token) == [present |-> TRUE, bearer |-> FALSE, token |-> token]

Register(Bodies) == \E data \in Bodies : Serve("register", NoHeader, [data |-> data], register(DB, data, now))

Login(Bodies) == \E data \in Bodies : Serve("login", NoHeader, [data |-> data], login(DB, data, now))

AdminLogin(Bodies) == \E data \in Bodies : Serve("admin_login", NoHeader, [data |-> data], admin_login(DB, data, now))

\* A request to the account route op, and to the admin route op.
AccountRequest(op, Headers, Reqs) ==
  \E hdr \in Headers, req \in Reqs :
    Serve(op, hdr, req, account_request(op, DB, hdr, req, now))

AdminRequest(op, Headers, Reqs) ==
  \E hdr \in Headers, req \in Reqs :
    Serve(op, hdr, req, admin_request(op, DB, hdr, req, now))

\* Tokens as clients send them: 'Bearer ' and a token they were given.
TokenHeaders == {Bearer(tok) : tok \in issued}

\* ------------------------------------------------- profiles of two accounts
\* Two customers on the Basic plan, each with at most one profile at a time,
\* and every profile-scoped route called by either of them on every profile id.
Emails == {"a@b.com", "c@d.com"}

OwnerRegisterBodies == {[email |-> e, password |-> "x", subscription_id |-> 1] : e \in Emails}

OwnerProfileIds == 1..(MaxOwnerProfileId + 1)

OwnerContentId == 1

ProfileReqs == {[profile_id |-> p] : p \in OwnerProfileIds}

ProfileBodies == {[name |-> "John", age_rating_pref |-> "PG-13"]}

ProfileUpdateReqs == {[profile_id |-> p, data |-> [name |-> "Jane"]] : p \in OwnerProfileIds}

ItemReqs == {[profile_id |-> p, content_id |-> OwnerContentId] : p \in OwnerProfileIds}

HistoryReqs ==
  {[profile_id |-> p, content_id |-> OwnerContentId, data |-> d] :
     p \in OwnerProfileIds, d \in {<<>>, [last_timestamp |-> JsonInt(0, 5)]}}

OwnerRegister == Register(OwnerRegisterBodies)

OwnerCreateProfile ==
  /\ AccountRequest("create_profile", TokenHeaders, {[data |-> d] : d \in ProfileBodies})
  /\ seq'.profiles <= MaxOwnerProfileId + 1

GetProfile == AccountRequest("get_profile", TokenHeaders, ProfileReqs)

UpdateProfile == AccountRequest("update_profile", TokenHeaders, ProfileUpdateReqs)

DeleteProfile == AccountRequest("delete_profile", TokenHeaders, ProfileReqs)

GetWishlist == AccountRequest("get_wishlist", TokenHeaders, ProfileReqs)

AddToWishlist == AccountRequest("add_to_wishlist", TokenHeaders, ItemReqs)

RemoveFromWishlist == AccountRequest("remove_from_wishlist", TokenHeaders, ItemReqs)

GetHistory == AccountRequest("get_history", TokenHeaders, ProfileReqs)

GetHistoryItem == AccountRequest("get_history_item", TokenHeaders, ItemReqs)

UpdateHistory == AccountRequest("update_history", TokenHeaders, HistoryReqs)

DeleteHistory == AccountRequest("delete_history", TokenHeaders, ItemReqs)

NextOwner ==
  \/ OwnerRegister
  \/ OwnerCreateProfile
  \/ GetProfile
  \/ UpdateProfile
  \/ DeleteProfile
  \/ GetWishlist
  \/ AddToWishlist
  \/ RemoveFromWishlist
  \/ GetHistory
  \/ GetHistoryItem
  \/ UpdateHistory
  \/ DeleteHistory

SpecOwner == Init /\ [][NextOwner]_vars

\* The profile-scoped routes.
ProfileScopedOps ==
  {"get_profile", "update_profile", "delete_profile",
   "get_wishlist", "add_to_wishlist", "remove_from_wishlist",
   "get_history", "get_history_item", "update_history", "delete_history"}

\* The header carries a valid token of an account, and req names a profile
\* that exists and belongs to another account.
CrossAccount(hdr, req) ==
  /\ token_required(hdr, now).pass
  /\ \E p \in profiles : /\ p.profile_id = req.profile_id
                         /\ p.account_id # token_required(hdr, now).id

\* The response to the same request with the id of no profile at all.
ResponseForNoProfile(op, hdr, req) ==
  account_request(op, DB, hdr, [req EXCEPT !.profile_id = seq.profiles], now)

\* C1 as claimed: a profile-scoped request that names another account's
\* profile is answered 404, with the status and body the request gets for a
\* profile id that does not exist, and changes no profile, wishlist or
\* viewing-history row.
C1_CrossAccountAlways404 ==
  [][(last'.op \in ProfileScopedOps /\ CrossAccount(last'.hdr, last'.req))
       => /\ last'.status = 404
          /\ last'.status = ResponseForNoProfile(last'.op, last'.hdr, last'.req).status
          /\ last'.body = ResponseForNoProfile(last'.op, last'.hdr, last'.req).body
          /\ UNCHANGED <<profiles, wishlist, viewing_history>>]_vars

\* C1 as amended: the answer is 404 'Profile not found', except that PUT
\* history without last_timestamp is answered 400 before the profile is
\* looked up; in every case it is the answer given for a profile id that
\* does not exist, it is never 200, and no profile, wishlist or
\* viewing-history row changes.
C1_CrossAccountHidden ==
  [][(last'.op \in ProfileScopedOps /\ CrossAccount(last'.hdr, last'.req))
       => /\ IF last'.op = "update_history" /\ ~Has(last'.req.data, "last_timestamp")
             THEN last'.status = 400 /\ last'.body = [error |-> "last_timestamp required"]
             ELSE last'.status = 404 /\ last'.body = [error |-> "Profile not found"]
          /\ last'.status = ResponseForNoProfile(last'.op, last'.hdr, last'.req).status
          /\ last'.body = ResponseForNoProfile(last'.op, last'.hdr, last'.req).body
          /\ UNCHANGED <<profiles, wishlist, viewing_history>>]_vars

\* A history update carrying a last_timestamp was refused with 404 for a
\* profile that exists, has a history row, and belongs to another account
\* than the caller's.
C1_Witness ==
  /\ last.op = "update_history"
  /\ Has(last.req.data, "last_timestamp")
  /\ last.status = 404
  /\ \E p \in profiles : /\ p.profile_id = last.req.profile_id
                         /\ p.account_id # last.hdr.token.payload.account_id
                         /\ \E h \in viewing_history : h.profile_id = p.profile_id
                         /\ <<p.profile_id, OwnerContentId>> \in wishlist

\* ------------------------------------------- plans and the profiles they allow
\* An administrator adds a plan that allows no profile; customers register on
\* the Basic plan (one profile), the Standard plan (two) or the new plan, with
\* and without a password and a subscription_id, and create profiles one
\* after another.  Nothing is deleted and no plan changes.
AdminCredentials == {[username |-> "admin", password |-> "admin123"]}

FreePlan == [name |-> "Free", max_profiles |-> JsonInt(0, 0), monthly_price |-> 0]

\* Basic, Standard, and the plan the administrator adds.
PlanIds == {1, 2, SeedSeq.subscriptions}

\* The id of no plan.
NoPlanId == MaxSubscriptionId + 1

PlanRegisterBodies ==
  {[email |-> e, password |-> "x", subscription_id |-> s] : e \in Emails, s \in PlanIds}
    \cup {[email |-> e, password |-> "x"] : e \in Emails}
    \cup {[email |-> e, subscription_id |-> 1] : e \in Emails}
    \cup {[email |-> e, password |-> "y", subscription_id |-> NoPlanId] : e \in Emails}

PlanProfileBodies == ProfileBodies \cup {[name |-> "John"]}

SeedAdminLogin == AdminLogin(AdminCredentials)

CreateSubscription ==
  AdminRequest("create_subscription", TokenHeaders, {[data |-> FreePlan]})

PlansRegister == Register(PlanRegisterBodies)

PlansCreateProfile ==
  /\ AccountRequest("create_profile", TokenHeaders, {[data |-> d] : d \in PlanProfileBodies})
  /\ seq'.profiles <= MaxPlanProfileId + 1

NextPlans ==
  \/ SeedAdminLogin
  \/ CreateSubscription
  \/ PlansRegister
  \/ PlansCreateProfile

SpecPlans == Init /\ [][NextPlans]_vars

\* The profiles of an account.
ProfilesOf(account_id) == {p \in profiles : p.account_id = account_id}

C6_ExistingEmailRefused ==
  [][(/\ last'.op = "register"
      /\ Has(last'.req.data, "email")
      /\ \E a \in accounts : a.email = last'.req.data.email)
       => /\ last'.status = 400
          /\ accounts' = accounts
          /\ seq'.accounts = seq.accounts]_vars

\* A registration with a password and the id of no plan was refused with 400
\* because an account with its email, under another password, exists.
C6_Witness ==
  /\ last.op = "register"
  /\ last.status = 400
  /\ Has(last.req.data, "password")
  /\ Has(last.req.data, "subscription_id")
  /\ last.req.data.subscription_id \notin SubscriptionIds(DB)
  /\ \E a \in accounts : /\ a.email = last.req.data.email
                         /\ ~checkpw(last.req.data.password, a.password_hash)

\* ------------------------------------------------------ guards and the clock
\* One customer registers, logs in, logs out and changes the password; the
\* administrator logs in, logs out and sets the account's plan; the clock runs
\* past the expiry of every token.  Requests carry no header, a string that
\* is no token, or a token that was issued.
MaxDay == MaxIssueDay + AccountTokenDays + 1

EmptyToken == [fmt |-> "empty"]

GarbageToken == [fmt |-> "garbage"]

\* Tokens signed with another key than the application's.
ForgedTokens ==
  {jwt_encode([account_id |-> 1, exp |-> MaxDay + 1], "guessed-key"),
   jwt_encode([admin_id |-> 1, is_admin |-> TRUE, exp |-> MaxDay + 1], "guessed-key")}

AccountOps ==
  {"logout", "get_me", "get_account", "update_account", "get_subscription",
   "update_subscription", "get_profiles", "create_profile"} \cup ProfileScopedOps

AdminOps ==
  {"admin_logout", "get_admin_subscriptions", "create_subscription",
   "get_subscription_by_id", "update_subscription_plan", "delete_subscription_plan",
   "get_all_accounts", "get_account_by_id", "admin_update_account", "delete_account",
   "admin_get_content", "create_content", "admin_get_content_by_id",
   "admin_update_content", "admin_delete_content", "create_media_file",
   "delete_media_file", "get_genres", "create_genre", "update_genre", "delete_genre",
   "link_genre_to_content", "unlink_genre_from_content", "create_season",
   "update_season", "delete_season", "create_episode", "update_episode",
   "delete_episode"}

\* A request with every URL parameter and a body that would change a row.
AnyReq ==
  [profile_id |-> 1, content_id |-> 1, subscription_id |-> 1, account_id |-> 1,
   media_id |-> 1, genre_id |-> 1, season_id |-> 1, episode_id |-> 1,
   data |-> [name |-> "n", title |-> "t", email |-> "e@f.com", password |-> "p"]]

\* An Authorization header that holds no token: a string that is no JWT, or
\* a JWT signed with another key.
MalformedHeaders == {Bearer(GarbageToken), Bare(GarbageToken), Bearer(EmptyToken)}

WronglySignedHeaders == {h \in UNION {{Bearer(tok), Bare(tok)} : tok \in ForgedTokens} : TRUE}

\* Headers with an issued token: expired at the clock's time, or not yet.
ExpiredHeaders ==
  UNION {{Bearer(tok), Bare(tok)} : tok \in {k \in issued : k.payload.exp <= now}}

UnexpiredHeaders(claim) ==
  UNION {{Bearer(tok), Bare(tok)} :
           tok \in {k \in issued : k.payload.exp > now /\ claim \in DOMAIN k.payload}}

\* No Authorization header, or an empty one.
MissingHeaders == {NoHeader, Bare(EmptyToken)}

GuardRegisterBodies == {[email |-> "a@b.com", password |-> "x", subscription_id |-> 1]}

GuardLoginBodies == {[email |-> "a@b.com", password |-> pw] : pw \in {"x", "y"}}

GuardActionHeaders == {NoHeader, Bearer(GarbageToken)} \cup TokenHeaders

GuardRegister == now <= MaxIssueDay /\ Register(GuardRegisterBodies)

GuardLogin == now <= MaxIssueDay /\ Login(GuardLoginBodies)

GuardAdminLogin == now <= MaxIssueDay /\ AdminLogin(AdminCredentials)

Logout == AccountRequest("logout", TokenHeaders, {<<>>})

ChangePassword ==
  AccountRequest("update_account", TokenHeaders, {[data |-> [password |-> "y"]]})

GetMe == AccountRequest("get_me", GuardActionHeaders, {<<>>})

AdminLogout == AdminRequest("admin_logout", TokenHeaders, {<<>>})

GuardAdminUpdateAccount ==
  AdminRequest("admin_update_account", GuardActionHeaders,
               {[account_id |-> 1, data |-> [subscription_id |-> 1]]})

\* A day passes.
Tick ==
  /\ now < MaxDay
  /\ now' = now + 1
  /\ UNCHANGED <<tables, seq, issued, last, proc, setup>>

NextGuard ==
  \/ GuardRegister
  \/ GuardLogin
  \/ GuardAdminLogin
  \/ Logout
  \/ ChangePassword
  \/ GetMe
  \/ AdminLogout
  \/ GuardAdminUpdateAccount
  \/ Tick

SpecGuard == Init /\ [][NextGuard]_vars

\* The guard's own answer: the handler was not called and nothing changed.
Refused(r, status) == r.status = status /\ ~r.invoked /\ r.db = DB

\* C3: every admin-only route answers 403 to an unexpired token of an
\* account, and 401 to a request with no Authorization header or with a
\* malformed, wrongly signed or expired token; in each case the handler is
\* not called and the database is left as it is.
C3_AdminRoutesRefuse ==
  \A op \in AdminOps :
    /\ \A hdr \in UnexpiredHeaders("account_id") :
         Refused(admin_request(op, DB, hdr, AnyReq, now), 403)
    /\ \A hdr \in MissingHeaders \cup MalformedHeaders \cup WronglySignedHeaders
                  \cup ExpiredHeaders :
         Refused(admin_request(op, DB, hdr, AnyReq, now), 401)

\* An administrator's update of an existing account was refused with 403
\* because it carried the unexpired token of that account.
C3_Witness ==
  /\ last.op = "admin_update_account"
  /\ last.status = 403
  /\ ~last.invoked
  /\ last.hdr \in UnexpiredHeaders("account_id")
  /\ last.req.account_id \in AccountIds(DB)

IssuedWithExpiry ==
  (last' # last /\ "token" \in DOMAIN last'.body)
    => /\ last'.op \in {"register", "login"}
          => last'.body.token = account_token(last'.body.account_id, now)
             /\ last'.body.token.payload.exp = now + 30
       /\ last'.op = "admin_login"
          => last'.body.token = admin_token(last'.body.admin_id, now)
             /\ last'.body.token.payload.exp = now + 7

\* An issued token at the clock's time: before its expiry every route of its
\* kind calls the handler with the id the token was issued for, from the
\* expiry on every route answers 401.
HonouredUntilExpiry ==
  \A tok \in issued :
    /\ "account_id" \in DOMAIN tok.payload
         => \A op \in AccountOps :
              IF now < tok.payload.exp
              THEN account_request(op, DB, Bearer(tok), AnyReq, now)
                     = account_route(op, DB, tok.payload.account_id, AnyReq)
              ELSE Refused(account_request(op, DB, Bearer(tok), AnyReq, now), 401)
    /\ "admin_id" \in DOMAIN tok.payload
         => \A op \in AdminOps :
              IF now < tok.payload.exp
              THEN admin_request(op, DB, Bearer(tok), AnyReq, now)
                     = admin_route(op, DB, tok.payload.admin_id, AnyReq)
              ELSE Refused(admin_request(op, DB, Bearer(tok), AnyReq, now), 401)

\* C5: a token returned by register or login expires 30 days after its issue;
\* at every time before that, whatever requests were served since (a logout,
\* a password change, an update by the administrator), every account route
\* accepts it and calls its handler with the account_id it was issued for,
\* and from the expiry on every account route rejects it with 401.  The same
\* holds of admin tokens and admin routes with 7 days.
C5_TokenHonouredUntilExpiry ==
  [](HonouredUntilExpiry) /\ [][IssuedWithExpiry]_vars

\* On the last day before its expiry, after the password was changed and a
\* logout was served, a token issued by register was still accepted.
C5_Witness ==
  /\ last.op = "get_me"
  /\ last.status = 200
  /\ last.invoked
  /\ last.hdr.token.payload.exp = now + 1
  /\ last.body.account_id = last.hdr.token.payload.account_id
  /\ \E a \in accounts : /\ a.account_id = last.body.account_id
                         /\ a.password_hash = hashpw("y")

\* ------------------------------------------- one owner's wishlist and history
\* One customer on the Standard plan creates profiles, adds a content item
\* and the id of no content item to their wishlists, and writes and reads
\* their viewing history with timestamps 0, 5, -1 and 2^31.
ItemRegisterBodies == {[email |-> "a@b.com", password |-> "x", subscription_id |-> 2]}

ItemProfileIds == 1..MaxItemProfileId

\* The id of no content item.
NoContentId == MaxContentId + 1

ItemContentIds == {OwnerContentId, NoContentId}

ItemTimestamps == {JsonInt(0, 0), JsonInt(0, 5), JsonInt(-1, Int4Max), JsonInt(1, 0)}

WishlistReqs ==
  {[profile_id |-> p, content_id |-> c] : p \in ItemProfileIds, c \in ItemContentIds}

ItemHistoryReqs ==
  {[profile_id |-> p, content_id |-> c, data |-> [last_timestamp |-> v]] :
     p \in ItemProfileIds, c \in ItemContentIds, v \in ItemTimestamps}

ItemsRegister == Register(ItemRegisterBodies)

ItemsCreateProfile ==
  /\ AccountRequest("create_profile", TokenHeaders, {[data |-> d] : d \in ProfileBodies})
  /\ seq'.profiles <= MaxItemProfileId + 1

ItemsAddToWishlist == AccountRequest("add_to_wishlist", TokenHeaders, WishlistReqs)

ItemsGetWishlist ==
  AccountRequest("get_wishlist", TokenHeaders, {[profile_id |-> p] : p \in ItemProfileIds})

ItemsUpdateHistory == AccountRequest("update_history", TokenHeaders, ItemHistoryReqs)

ItemsGetHistoryItem == AccountRequest("get_history_item", TokenHeaders, WishlistReqs)

NextItems ==
  \/ ItemsRegister
  \/ ItemsCreateProfile
  \/ ItemsAddToWishlist
  \/ ItemsGetWishlist
  \/ ItemsUpdateHistory
  \/ ItemsGetHistoryItem

SpecItems == Init /\ [][NextItems]_vars

\* The header carries a valid token of the account that owns profile
\* req.profile_id.
OwnProfile(hdr, req) ==
  /\ token_required(hdr, now).pass
  /\ owned_profile(DB, req.profile_id, token_required(hdr, now).id) # {}

\* After the request the wishlist of its profile, as GET returns it, holds
\* its content id.
WishlistShows(hdr, req) ==
  LET r == account_request("get_wishlist", DB', hdr, [profile_id |-> req.profile_id], now)
  IN r.status = 200 /\ \E i \in r.body.items : i.content_id = req.content_id

\* The request added at most its own pair to the wishlist and changed
\* nothing else; it changed nothing at all when the pair was there.
AddedOnce(req) ==
  /\ wishlist' = wishlist \cup {<<req.profile_id, req.content_id>>}
  /\ UNCHANGED <<subscriptions, accounts, admins, profiles, content, genres,
                 content_genres, media_files, seasons, episodes, viewing_history, seq>>

\* C7 as claimed: POST wishlist for a profile of the caller and any content
\* id returns 201 whether or not the pair is on the wishlist, leaves the pair
\* on it once, changes nothing when the pair was there, and a GET of the
\* wishlist then shows the content id.
C7_WishlistAddIdempotent ==
  [][(last'.op = "add_to_wishlist" /\ OwnProfile(last'.hdr, last'.req))
       => /\ last'.status = 201
          /\ AddedOnce(last'.req)
          /\ WishlistShows(last'.hdr, last'.req)]_vars

\* C7 as amended: the above holds when the content id is that of a content
\* item; for the id of no content item the response is 500 and no row is
\* added.
C7_WishlistAddIdempotentForContent ==
  [][(last'.op = "add_to_wishlist" /\ OwnProfile(last'.hdr, last'.req))
       => IF last'.req.content_id \in ContentIds(DB)
          THEN /\ last'.status = 201
               /\ AddedOnce(last'.req)
               /\ WishlistShows(last'.hdr, last'.req)
          ELSE /\ last'.status = 500
               /\ UNCHANGED <<tables, seq>>]_vars

\* The same POST wishlist was served twice in a row, answered 201 both
\* times, and the pair is on the wishlist.
C7_Witness ==
  /\ last.op = "add_to_wishlist"
  /\ last.repeat
  /\ last.status = 201
  /\ <<last.req.profile_id, last.req.content_id>> \in wishlist

\* After the request GET of its history item returns timestamp v.
HistoryShows(hdr, req, v) ==
  LET r == account_request("get_history_item", DB', hdr,
                           [profile_id |-> req.profile_id, content_id |-> req.content_id],
                           now)
  IN r.status = 200 /\ r.body = [content_id |-> req.content_id, last_timestamp |-> v]

\* The history rows of other (profile, content) pairs than the request's.
OtherHistory(H, req) ==
  {h \in H : ~(h.profile_id = req.profile_id /\ h.content_id = req.content_id)}

\* The request left one row for its pair and changed no other row.
Upserted(req) ==
  /\ OtherHistory(viewing_history', req) = OtherHistory(viewing_history, req)
  /\ Cardinality(viewing_history' \ OtherHistory(viewing_history', req)) = 1
  /\ UNCHANGED <<subscriptions, accounts, admins, profiles, content, genres,
                 content_genres, media_files, seasons, episodes, wishlist, seq>>

\* C8 as claimed: PUT history with any integer last_timestamp v for a
\* profile of the caller returns 200, a GET of the item then returns v, the
\* row is inserted or overwritten, and no other history row changes.
C8_HistoryUpsert ==
  [][(/\ last'.op = "update_history"
      /\ Has(last'.req.data, "last_timestamp")
      /\ OwnProfile(last'.hdr, last'.req))
       => /\ last'.status = 200
          /\ FitsInt4(last'.req.data.last_timestamp)
          /\ HistoryShows(last'.hdr, last'.req, Int4Of(last'.req.data.last_timestamp))
          /\ Upserted(last'.req)]_vars

\* C8 as amended: the above holds when v is within -2^31 .. 2^31 - 1 and
\* the content id is that of a content item; otherwise the response is 500
\* and no row changes.
C8_HistoryUpsertInRange ==
  [][(/\ last'.op = "update_history"
      /\ Has(last'.req.data, "last_timestamp")
      /\ OwnProfile(last'.hdr, last'.req))
       => IF /\ FitsInt4(last'.req.data.last_timestamp)
             /\ last'.req.content_id \in ContentIds(DB)
          THEN /\ last'.status = 200
               /\ HistoryShows(last'.hdr, last'.req,
                               Int4Of(last'.req.data.last_timestamp))
               /\ Upserted(last'.req)
          ELSE /\ last'.status = 500
               /\ UNCHANGED <<tables, seq>>]_vars

\* A PUT history with last_timestamp 0 was answered 200 where the item had a
\* row, the stored timestamp is 0, and the history row of another profile
\* holds another timestamp.
C8_Witness ==
  /\ last.op = "update_history"
  /\ last.status = 200
  /\ last.req.data.last_timestamp = JsonInt(0, 0)
  /\ [profile_id |-> last.req.profile_id, content_id |-> last.req.content_id,
      last_timestamp |-> 0] \in viewing_history
  /\ \E h \in viewing_history : /\ h.profile_id # last.req.profile_id
                                /\ h.last_timestamp = 5

\* ------------------------------------------------- deleting catalogue content
\* A customer puts a film and the show on a wishlist and into the viewing
\* history; the administrator adds a media file to the show and deletes
\* content items.
ShowContentId == 4

CatalogContentIds == {OwnerContentId, ShowContentId}

CatalogItemReqs == {[profile_id |-> 1, content_id |-> c] : c \in CatalogContentIds}

CatalogHistoryReqs ==
  {[profile_id |-> 1, content_id |-> c, data |-> [last_timestamp |-> JsonInt(0, 5)]] :
     c \in CatalogContentIds}

CatalogMediaReqs ==
  {[content_id |-> ShowContentId,
    data |-> [resolution |-> "4K", language |-> "English",
              file_path |-> "/media/content_4k_en.mp4"]]}

CatalogRegister == Register({[email |-> "a@b.com", password |-> "x", subscription_id |-> 1]})

CatalogAddToWishlist == AccountRequest("add_to_wishlist", TokenHeaders, CatalogItemReqs)

CatalogUpdateHistory == AccountRequest("update_history", TokenHeaders, CatalogHistoryReqs)

CatalogCreateMediaFile == AdminRequest("create_media_file", TokenHeaders, CatalogMediaReqs)

AdminDeleteContent ==
  AdminRequest("admin_delete_content", TokenHeaders,
               {[content_id |-> c] : c \in CatalogContentIds \cup {NoContentId}})

NextCatalog ==
  \/ CatalogRegister
  \/ OwnerCreateProfile
  \/ CatalogAddToWishlist
  \/ CatalogUpdateHistory
  \/ SeedAdminLogin
  \/ CatalogCreateMediaFile
  \/ AdminDeleteContent

SpecCatalog == Init /\ [][NextCatalog]_vars

\* The seasons of content item c in database D, and the rows of each
\* dependent table that belong to c.
SeasonsOf(D, c) == {s \in D.seasons : s.content_id = c}

EpisodesOf(D, c) ==
  {e \in D.episodes : \E s \in SeasonsOf(D, c) : e.season_id = s.season_id}

MediaOf(D, c) == {m \in D.media_files : m.content_id = c}

GenreLinksOf(D, c) == {l \in D.content_genres : l[1] = c}

WishlistOf(D, c) == {w \in D.wishlist : w[2] = c}

HistoryOf(D, c) == {h \in D.viewing_history : h.content_id = c}

\* Content item c has no row left in database D.
NothingLeftOf(D, c) ==
  /\ c \notin ContentIds(D)
  /\ SeasonsOf(D, c) = {}
  /\ \A e \in D.episodes : \E s \in D.seasons : s.season_id = e.season_id
  /\ MediaOf(D, c) = {}
  /\ GenreLinksOf(D, c) = {}
  /\ WishlistOf(D, c) = {}
  /\ HistoryOf(D, c) = {}

\* C9: when DELETE /api/admin/content/{id} returns 200, afterwards no season,
\* episode, media file, genre link, wishlist row or viewing-history row of
\* that content item exists, and the rows of every other content item, and
\* every other table, are as before.
C9_ContentDeleteCascades ==
  [][(last'.op = "admin_delete_content" /\ last'.status = 200)
       => /\ NothingLeftOf(DB', last'.req.content_id)
          /\ content' = {x \in content : x.content_id # last'.req.content_id}
          /\ seasons' = seasons \ SeasonsOf(DB, last'.req.content_id)
          /\ episodes' = episodes \ EpisodesOf(DB, last'.req.content_id)
          /\ media_files' = media_files \ MediaOf(DB, last'.req.content_id)
          /\ content_genres' = content_genres \ GenreLinksOf(DB, last'.req.content_id)
          /\ wishlist' = wishlist \ WishlistOf(DB, last'.req.content_id)
          /\ viewing_history' = viewing_history \ HistoryOf(DB, last'.req.content_id)
          /\ UNCHANGED <<subscriptions, accounts, admins, profiles, genres>>]_vars

\* The show was deleted with 200 after it had been given a media file; no
\* season or episode is left, and the wishlist and the viewing history still
\* hold their rows of the film.
C9_Witness ==
  /\ last.op = "admin_delete_content"
  /\ last.status = 200
  /\ last.req.content_id = ShowContentId
  /\ seq.media_files > SeedSeq.media_files
  /\ seasons = {} /\ episodes = {}
  /\ <<1, OwnerContentId>> \in wishlist
  /\ \E h \in viewing_history : h.content_id = OwnerContentId

\* ------------------------------------------------- statements that fail
\* Two customers and the administrator send updates and inserts of which a
\* statement meets a UNIQUE constraint, a foreign key, the length of a
\* VARCHAR or the range of an INTEGER, next to requests that succeed.
TxnAccountBodies == {[email |-> "c@d.com", password |-> "y"]}

TxnProfileReqs ==
  {[profile_id |-> 1, data |-> d] :
     d \in {[name |-> "Jane", age_rating_pref |-> "PG-13-EXTENDED"],
            [name |-> "Jane", age_rating_pref |-> "R"]}}

TxnPlanReqs ==
  {[subscription_id |-> 1, data |-> d] :
     d \in {[name |-> "Basic+", max_profiles |-> JsonInt(1, 0), monthly_price |-> 1099],
            [name |-> "Standard"]}}

TxnAdminAccountReqs ==
  {[account_id |-> 1, data |-> [email |-> "z@b.com", subscription_id |-> NoPlanId]]}

TxnContentReqs ==
  {[content_id |-> OwnerContentId,
    data |-> [title |-> "T", description |-> "D", release_year |-> JsonInt(1, 0)]]}

TxnNewPlanBodies ==
  {[name |-> "Basic", max_profiles |-> JsonInt(0, 1), monthly_price |-> 999]}

TxnMediaReqs ==
  {[content_id |-> NoContentId,
    data |-> [resolution |-> "4K", language |-> "English",
              file_path |-> "/media/content_4k_en.mp4"]]}

TxnUpdateAccount ==
  AccountRequest("update_account", TokenHeaders, {[data |-> d] : d \in TxnAccountBodies})

TxnUpdateProfile == AccountRequest("update_profile", TokenHeaders, TxnProfileReqs)

TxnUpdateSubscriptionPlan ==
  AdminRequest("update_subscription_plan", TokenHeaders, TxnPlanReqs)

TxnAdminUpdateAccount ==
  AdminRequest("admin_update_account", TokenHeaders, TxnAdminAccountReqs)

TxnAdminUpdateContent == AdminRequest("admin_update_content", TokenHeaders, TxnContentReqs)

TxnCreateSubscription ==
  AdminRequest("create_subscription", TokenHeaders, {[data |-> d] : d \in TxnNewPlanBodies})

TxnCreateMediaFile == AdminRequest("create_media_file", TokenHeaders, TxnMediaReqs)

NextTxn ==
  \/ OwnerRegister
  \/ SeedAdminLogin
  \/ OwnerCreateProfile
  \/ TxnUpdateAccount
  \/ TxnUpdateProfile
  \/ TxnUpdateSubscriptionPlan
  \/ TxnAdminUpdateAccount
  \/ TxnAdminUpdateContent
  \/ TxnCreateSubscription
  \/ TxnCreateMediaFile

SpecTxn == Init /\ [][NextTxn]_vars

\* The id the guard hands to the handler of route op.
PrincipalOf(op, hdr) ==
  IF op \in AccountOps THEN token_required(hdr, now).id
  ELSE admin_token_required(hdr, now).id

\* A statement that the handler of route op executes for request req fails
\* in the database.
StatementFails(op, id, req) ==
  CASE op = "update_account" ->
         /\ TruthyStr(req.data, "email")
         /\ ~update_account_email(DB, id, req.data.email).ok
    [] op = "update_profile" ->
         /\ owned_profile(DB, req.profile_id, id) # {}
         /\ TruthyStr(req.data, "age_rating_pref")
         /\ ~update_profile_age_rating(DB, req.profile_id, req.data.age_rating_pref).ok
    [] op = "update_subscription_plan" ->
         \/ /\ TruthyStr(req.data, "name")
            /\ ~update_subscription_name(DB, req.subscription_id, req.data.name).ok
         \/ /\ Has(req.data, "max_profiles")
            /\ ~update_subscription_max_profiles(DB, req.subscription_id,
                                                 req.data.max_profiles).ok
    [] op = "admin_update_account" ->
         \/ /\ TruthyStr(req.data, "email")
            /\ ~update_account_email(DB, req.account_id, req.data.email).ok
         \/ /\ Has(req.data, "subscription_id")
            /\ ~update_account_subscription(DB, req.account_id,
                                            req.data.subscription_id).ok
    [] op = "admin_update_content" ->
         /\ Has(req.data, "release_year")
         /\ ~update_content_release_year(DB, req.content_id, req.data.release_year).ok
    [] op = "create_subscription" ->
         ~insert_subscription(DB, req.data.name, req.data.max_profiles,
                              req.data.monthly_price).ok
    [] op = "create_media_file" ->
         ~insert_media_file(DB, req.content_id, req.data.resolution, req.data.language,
                            req.data.file_path).ok
    [] OTHER -> FALSE

\* No sequence went back.
SequencesKept == \A t \in DOMAIN seq : seq'[t] >= seq[t]

\* C10 as claimed: when a statement of a mutating handler fails in the
\* database the response is 500, and whenever the response is 500 the
\* database, rows and sequences, is as it was before the request.
C10_FailureLeavesDatabase ==
  [][last'.invoked
       => /\ StatementFails(last'.op, PrincipalOf(last'.op, last'.hdr), last'.req)
               => last'.status = 500
          /\ last'.status = 500 => UNCHANGED <<tables, seq>>]_vars

\* C10 as amended: when a statement of a mutating handler fails in the
\* database the response is 500, and whenever the response is 500 every
\* table holds the rows it held before the request, the updates of earlier
\* statements of the request included; only the serial sequences keep the
\* ids the request drew.
C10_FailureLeavesRows ==
  [][last'.invoked
       => /\ StatementFails(last'.op, PrincipalOf(last'.op, last'.hdr), last'.req)
               => last'.status = 500
          /\ last'.status = 500 => UNCHANGED tables /\ SequencesKept]_vars

\* An update of the caller's profile whose new name fits and whose new
\* age_rating_pref is too long was answered 500, and the profile holds its
\* old name.
C10_Witness ==
  /\ last.op = "update_profile"
  /\ last.status = 500
  /\ last.req.data.name = "Jane"
  /\ Len(last.req.data.age_rating_pref) > AgeRatingLen
  /\ \E p \in profiles : /\ p.profile_id = last.req.profile_id
                         /\ p.account_id = last.hdr.token.payload.account_id
                         /\ p.name = "John"

\* ------------------------------------------------ single resources by their id
\* An administrator addresses one row of each table, and an id no row ever
\* had, through every admin route that names a single resource in its URL
\* (no customer has registered: every account id is the id of no row).  The
\* bodies of the PUT requests repeat what the seed row holds, so that only
\* the DELETE requests change the rows.
ResourceOps ==
  {"get_subscription_by_id", "update_subscription_plan", "delete_subscription_plan",
   "get_account_by_id", "admin_update_account", "delete_account",
   "admin_get_content_by_id", "admin_update_content", "admin_delete_content",
   "update_genre", "delete_genre", "update_season", "delete_season",
   "update_episode", "delete_episode", "delete_media_file"}

\* The URL parameter of the route, and the ids of the rows of its table.
ResourceKey(op) ==
  CASE op \in {"get_subscription_by_id", "update_subscription_plan",
               "delete_subscription_plan"} -> "subscription_id"
    [] op \in {"get_account_by_id", "admin_update_account", "delete_account"} -> "account_id"
    [] op \in {"admin_get_content_by_id", "admin_update_content",
               "admin_delete_content"} -> "content_id"
    [] op \in {"update_genre", "delete_genre"} -> "genre_id"
    [] op \in {"update_season", "delete_season"} -> "season_id"
    [] op \in {"update_episode", "delete_episode"} -> "episode_id"
    [] op = "delete_media_file" -> "media_id"

ResourceRows(D, key) ==
  CASE key = "subscription_id" -> SubscriptionIds(D)
    [] key = "account_id" -> AccountIds(D)
    [] key = "content_id" -> ContentIds(D)
    [] key = "genre_id" -> GenreIds(D)
    [] key = "season_id" -> SeasonIds(D)
    [] key = "episode_id" -> EpisodeIds(D)
    [] key = "media_id" -> {m.media_id : m \in D.media_files}

\* The row the requests address in each table, and the id of no row.
ResourceIds(key) ==
  CASE key = "subscription_id" -> {SeedSeq.subscriptions - 1, NoPlanId}
    [] key = "account_id" -> {SeedSeq.accounts, MaxAccountId + 1}
    [] key = "content_id" -> {SeedSeq.content - 2, NoContentId}
    [] key = "genre_id" -> {SeedSeq.genres - 1, MaxGenreId + 1}
    [] key = "season_id" -> {SeedSeq.seasons - 1, MaxSeasonId + 1}
    [] key = "episode_id" -> {SeedSeq.episodes - 1, MaxEpisodeId + 1}
    [] key = "media_id" -> {SeedSeq.media_files - 1, MaxMediaId + 1}

ResourceBody(op) ==
  CASE op = "update_subscription_plan" -> [name |-> "Premium"]
    [] op = "admin_update_account" -> [email |-> "a@b.com"]
    [] op = "admin_update_content" -> [title |-> "The Last Stand"]
    [] op = "update_genre" -> [name |-> "Fantasy"]
    [] op = "update_season" -> [season_number |-> JsonInt(0, 2)]
    [] op = "update_episode" -> [title |-> "The Awakening"]
    [] OTHER -> <<>>

ResourceReqs(op) ==
  {[k \in {ResourceKey(op), "data"} |-> IF k = "data" THEN ResourceBody(op) ELSE id] :
     id \in ResourceIds(ResourceKey(op))}

ResourceAdminRequest ==
  \E op \in ResourceOps : AdminRequest(op, TokenHeaders, ResourceReqs(op))

NextResource ==
  \/ SeedAdminLogin
  \/ ResourceAdminRequest

SpecResource == Init /\ [][NextResource]_vars

\* The handler of a single-resource route ran on an id that no row of its
\* table has.
OnMissingRow(ops) ==
  /\ last'.op \in ops
  /\ last'.invoked
  /\ last'.req[ResourceKey(last'.op)] \notin ResourceRows(DB, ResourceKey(last'.op))

\* C11: every handler that addresses a single resource by the id in its URL
\* (GET, PUT and DELETE on a plan, an account, a content item, a genre, a
\* season, an episode and a media file) answers 404 when no row has that id,
\* and changes no state.
C11_MissingResource404 ==
  [][OnMissingRow(ResourceOps)
       => (last'.status = 404 /\ UNCHANGED <<tables, seq>>)]_vars

\* ------------------------------------------------- requests served in steps
\* The server serves each request in a thread of its own, so the statements
\* of two handlers may interleave.  A thread goes through its handler one
\* statement at a time: the code before the connection is opened, then
\* get_db_connection(), the SELECT at the head of the try block, the INSERT,
\* conn.commit() or the except clause, and the finally clause.
\*
\* What a connection reads (READ COMMITTED): the committed rows, and over
\* them the rows its own transaction wrote; a written row stands for the
\* committed row with the same primary key.
View(D, w) ==
  [D EXCEPT
     !.accounts = {r \in @ : \A x \in w.accounts : x.account_id # r.account_id}
                    \cup w.accounts,
     !.profiles = {r \in @ : \A x \in w.profiles : x.profile_id # r.profile_id}
                    \cup w.profiles,
     !.wishlist = @ \cup w.wishlist,
     !.viewing_history =
        {h \in @ : \A x \in w.viewing_history :
                     ~(x.profile_id = h.profile_id /\ x.content_id = h.content_id)}
          \cup w.viewing_history]

\* The rows of a transaction after a statement took the view V to D1.
Written(V, D1, w) ==
  [accounts |-> w.accounts \cup (D1.accounts \ V.accounts),
   profiles |-> w.profiles \cup (D1.profiles \ V.profiles),
   wishlist |-> w.wishlist \cup (D1.wishlist \ V.wishlist),
   viewing_history |->
     {h \in w.viewing_history : h \in D1.viewing_history}
       \cup (D1.viewing_history \ V.viewing_history)]

\* ON CONFLICT ... DO UPDATE writes the row of the pair anew, also with the
\* value it had: the transaction holds that row until it ends.
rewritten(op, req, D1, w) ==
  IF op = "update_history"
  THEN [w EXCEPT !.viewing_history =
          @ \cup {h \in D1.viewing_history :
                    h.profile_id = req.profile_id /\ h.content_id = req.content_id}]
  ELSE w

\* (mutant) an INSERT that never waits for another transaction
never_waits(op, req, w) == FALSE

\* An INSERT that meets an uncommitted row of another transaction with its
\* primary key, or with its value in a UNIQUE column, waits until that
\* transaction has ended.
waits_for(op, req, w) ==
  CASE op = "register" -> \E a \in w.accounts : a.email = req.data.email
    [] op = "add_to_wishlist" -> <<req.profile_id, req.content_id>> \in w.wishlist
    [] op = "update_history" ->
         \E h \in w.viewing_history :
           h.profile_id = req.profile_id /\ h.content_id = req.content_id
    [] OTHER -> FALSE

\* No response yet.
Pending == [status |-> 0, body |-> <<>>]

\* The handler's code before get_db_connection(): the response it returns
\* without opening a connection, if any.
early_return(op, req) ==
  CASE op = "register" ->
         IF ~TruthyStr(req.data, "email") \/ ~TruthyStr(req.data, "password")
         THEN [status |-> 400, body |-> [error |-> "Email and password required"]]
         ELSE IF ~TruthyInt(req.data, "subscription_id")
         THEN [status |-> 400, body |-> [error |-> "subscription_id required"]]
         ELSE Pending
    [] op = "login" ->
         IF ~TruthyStr(req.data, "email") \/ ~TruthyStr(req.data, "password")
         THEN [status |-> 400, body |-> [error |-> "Email and password required"]]
         ELSE Pending
    [] op = "create_profile" ->
         IF ~TruthyStr(req.data, "name") \/ ~TruthyStr(req.data, "age_rating_pref")
         THEN [status |-> 400, body |-> [error |-> "name and age_rating_pref required"]]
         ELSE Pending
    [] op = "update_history" ->
         IF ~Has(req.data, "last_timestamp")
         THEN [status |-> 400, body |-> [error |-> "last_timestamp required"]]
         ELSE Pending
    [] OTHER -> Pending

\* The SELECT at the head of the try block and the code up to the next
\* statement: a return from inside the try block, an exception that no
\* except clause catches, or the way on to the INSERT.
query(op, V, id, req, t) ==
  CASE op = "register" ->
         IF \E a \in V.accounts : a.email = req.data.email
         THEN [next |-> "finally", kind |-> "return", status |-> 400,
               body |-> [error |-> "Email already exists"]]
         ELSE IF req.data.subscription_id \notin SubscriptionIds(V)
         THEN [next |-> "finally", kind |-> "return", status |-> 404,
               body |-> [error |-> "Subscription not found"]]
         ELSE [next |-> "execute", kind |-> "", status |-> 0, body |-> <<>>]
    [] op = "login" ->
         [next |-> "finally", kind |-> "return", status |-> login(V, req.data, t).status,
          body |-> login(V, req.data, t).body]
    [] op = "get_me" ->
         [next |-> "finally",
          kind |-> IF "exception" \in DOMAIN get_me(V, id).body THEN "raise" ELSE "return",
          status |-> get_me(V, id).status, body |-> get_me(V, id).body]
    [] op = "create_profile" ->
         IF profile_limit_reached(V, id)
         THEN [next |-> "finally", kind |-> "return", status |-> 400,
               body |-> [error |-> "Profile limit reached"]]
         ELSE [next |-> "execute", kind |-> "", status |-> 0, body |-> <<>>]
    [] op \in {"add_to_wishlist", "update_history"} ->
         IF owned_profile(V, req.profile_id, id) = {}
         THEN [next |-> "finally", kind |-> "return", status |-> 404,
               body |-> [error |-> "Profile not found"]]
         ELSE [next |-> "execute", kind |-> "", status |-> 0, body |-> <<>>]

\* (mutant) an INSERT of a profile that tests the limit again, against the
\* rows committed by then
execute_testing_limit_again(op, V, id, req) ==
  CASE op = "register" ->
         insert_account(V, req.data.email, hashpw(req.data.password), req.data.subscription_id)
    [] op = "create_profile" ->
         IF profile_limit_reached(V, id)
         THEN Failure(V, "Profile limit reached")
         ELSE insert_profile(V, id, req.data.name, req.data.age_rating_pref)
    [] op = "add_to_wishlist" -> insert_wishlist(V, req.profile_id, req.content_id)
    [] op = "update_history" ->
         upsert_viewing_history(V, req.profile_id, req.content_id, req.data.last_timestamp)

\* The INSERT of the handler.
execute(op, V, id, req) ==
  CASE op = "register" ->
         insert_account(V, req.data.email, hashpw(req.data.password), req.data.subscription_id)
    [] op = "create_profile" ->
         insert_profile(V, id, req.data.name, req.data.age_rating_pref)
    [] op = "add_to_wishlist" -> insert_wishlist(V, req.profile_id, req.content_id)
    [] op = "update_history" ->
         upsert_viewing_history(V, req.profile_id, req.content_id, req.data.last_timestamp)

\* The response returned after conn.commit().
committed(op, stmt, req, t) ==
  CASE op = "register" ->
         [status |-> 201,
          body |-> [account_id |-> stmt.returning, email |-> req.data.email,
                    subscription_id |-> req.data.subscription_id,
                    token |-> account_token(stmt.returning, t)]]
    [] op = "create_profile" ->
         [status |-> 201,
          body |-> [profile_id |-> stmt.returning, name |-> req.data.name,
                    age_rating_pref |-> req.data.age_rating_pref]]
    [] op = "add_to_wishlist" -> [status |-> 201, body |-> [message |-> "Added to wishlist"]]
    [] op = "update_history" -> [status |-> 200, body |-> [message |-> "History updated"]]

\* (mutant) a handler that closes its connection on the way out of a return
\* only, and not when an exception passes through
close_unless_raised(c) ==
  [IdleThread EXCEPT !.op = c.op, !.kind = c.kind, !.status = c.status, !.body = c.body,
                     !.open = (c.kind = "raise")]

\* finally: cur.close(); conn.close().  What the transaction wrote and did
\* not commit is gone with the connection, and so are the handler's local
\* variables; the response stays.
finally_close(c) ==
  [IdleThread EXCEPT !.op = c.op, !.kind = c.kind, !.status = c.status, !.body = c.body]

\* The committed rows become D.
Store(D) ==
  /\ subscriptions' = D.subscriptions
  /\ accounts' = D.accounts
  /\ admins' = D.admins
  /\ profiles' = D.profiles
  /\ content' = D.content
  /\ genres' = D.genres
  /\ content_genres' = D.content_genres
  /\ media_files' = D.media_files
  /\ seasons' = D.seasons
  /\ episodes' = D.episodes
  /\ wishlist' = D.wishlist
  /\ viewing_history' = D.viewing_history

\* A request arrives at thread p: the guard and the code before the
\* connection.  register and login are not behind a guard.
Begin(p, op, hdr, req) ==
  /\ proc[p].pc = "idle"
  /\ LET g == IF op \in {"register", "login"} THEN [pass |-> TRUE, id |-> 0] ELSE token_required(hdr, now)
         start == [IdleThread EXCEPT !.op = op, !.hdr = hdr, !.req = req]
     IN proc' = [proc EXCEPT ![p] =
                   IF ~g.pass
                   THEN [IdleThread EXCEPT !.op = op, !.kind = "return", !.status = g.status,
                                           !.body = [error |-> g.error]]
                   ELSE IF early_return(op, req).status # Pending.status
                   THEN [IdleThread EXCEPT !.op = op, !.kind = "return",
                                           !.status = early_return(op, req).status,
                                           !.body = early_return(op, req).body]
                   ELSE [start EXCEPT !.pc = "connect", !.id = g.id]]
  /\ UNCHANGED <<tables, seq, now, issued, last, setup>>

\* conn = get_db_connection()
Connect(p) ==
  /\ proc[p].pc = "connect"
  /\ proc' = [proc EXCEPT ![p].pc = "query", ![p].open = TRUE]
  /\ UNCHANGED <<tables, seq, now, issued, last, setup>>

Query(p) ==
  /\ proc[p].pc = "query"
  /\ LET c == proc[p]
         q == query(c.op, View(DB, c.writes), c.id, c.req, now)
     IN proc' = [proc EXCEPT ![p] = [c EXCEPT !.pc = q.next, !.kind = q.kind,
                                               !.status = q.status, !.body = q.body]]
  /\ UNCHANGED <<tables, seq, now, issued, last, setup>>

Execute(p) ==
  /\ proc[p].pc = "execute"
  /\ \A o \in Threads \ {p} : ~waits_for(proc[p].op, proc[p].req, proc[o].writes)
  /\ LET c == proc[p]
         V == View(DB, c.writes)
         r == execute(c.op, V, c.id, c.req)
     IN /\ SeqBounded(r.db.seq)
        /\ seq' = r.db.seq
        /\ proc' = [proc EXCEPT ![p] =
                      [c EXCEPT !.pc = IF r.ok THEN "commit" ELSE "except",
                                !.stmt = [r EXCEPT !.db = <<>>],
                                !.writes = IF r.ok THEN rewritten(c.op, c.req, r.db, Written(V, r.db, @))
                                           ELSE @]]
  /\ UNCHANGED <<tables, now, issued, last, setup>>

\* conn.commit() and the return that follows it
Commit(p) ==
  /\ proc[p].pc = "commit"
  /\ LET c == proc[p]
     IN /\ Store(commit(DB, View(DB, c.writes)))
        /\ proc' = [proc EXCEPT ![p] =
                      [c EXCEPT !.pc = "finally", !.kind = "return", !.writes = NoWrites,
                                !.status = committed(c.op, c.stmt, c.req, now).status,
                                !.body = committed(c.op, c.stmt, c.req, now).body]]
  /\ UNCHANGED <<seq, now, issued, last, setup>>

\* except Exception as e: conn.rollback(); return jsonify({'error': str(e)}), 500
Except(p) ==
  /\ proc[p].pc = "except"
  /\ proc' = [proc EXCEPT ![p] =
                [@ EXCEPT !.pc = "finally", !.kind = "return", !.writes = NoWrites,
                          !.status = 500, !.body = [error |-> proc[p].stmt.err]]]
  /\ UNCHANGED <<tables, seq, now, issued, last, setup>>

\* The finally clause; after it the response goes out.
Finally(p) ==
  /\ proc[p].pc = "finally"
  /\ proc' = [proc EXCEPT ![p] = finally_close(@)]
  /\ issued' = IF "token" \in DOMAIN proc[p].body
               THEN issued \cup {proc[p].body.token} ELSE issued
  /\ UNCHANGED <<tables, seq, now, last, setup>>

\* The connections that are open.
OpenConnections == {p \in Threads : proc[p].open}

\* ------------------------------------------------ connections of the handlers
\* One customer on the Basic plan logs in, reads the account and creates
\* profiles in two threads, with bodies that pass, that are refused before
\* the connection is opened, and that the database refuses; an administrator
\* deletes the account, after which GET /api/auth/me with the customer's
\* token raises inside the try block.
ConnRegister ==
  /\ seq.accounts = SeedSeq.accounts
  /\ Register({[email |-> "a@b.com", password |-> "x", subscription_id |-> 1]})

ConnDeleteAccount ==
  AdminRequest("delete_account", TokenHeaders, {[account_id |-> SeedSeq.accounts]})

ConnLogin ==
  \E p \in Threads :
    \E d \in {[email |-> "a@b.com", password |-> "x"], [email |-> "a@b.com", password |-> "y"]} :
      Begin(p, "login", NoHeader, [data |-> d])

ConnGetMe ==
  \E p \in Threads, hdr \in TokenHeaders \cup {NoHeader} : Begin(p, "get_me", hdr, <<>>)

ConnCreateProfile ==
  /\ seq.profiles <= MaxOwnerProfileId
  /\ \E p \in Threads, hdr \in TokenHeaders :
    \E d \in {[name |-> "John", age_rating_pref |-> "PG-13"],
              [name |-> "John", age_rating_pref |-> "PG-13-EXTENDED"], [name |-> "John"]} :
         Begin(p, "create_profile", hdr, [data |-> d])

NextConnections ==
  \/ ConnRegister
  \/ SeedAdminLogin
  \/ ConnDeleteAccount
  \/ ConnLogin
  \/ ConnGetMe
  \/ ConnCreateProfile
  \/ \E p \in Threads : Connect(p)
  \/ \E p \in Threads : Query(p)
  \/ \E p \in Threads : Execute(p)
  \/ \E p \in Threads : Commit(p)
  \/ \E p \in Threads : Except(p)
  \/ \E p \in Threads : Finally(p)

SpecConnections == Init /\ [][NextConnections]_vars

\* C12: a thread holds an open connection only between get_db_connection()
\* and the end of its finally clause: when the response of a request has
\* gone out its connection is closed, whichever way the handler was left,
\* and when no request is in service no connection is open.
C12_ConnectionsClosed ==
  /\ \A p \in Threads : proc[p].pc \in {"idle", "connect"} => ~proc[p].open
  /\ (\A p \in Threads : proc[p].pc = "idle") => OpenConnections = {}

\* Both threads have answered and hold no connection: one left get_me by
\* an exception (the account is gone), the other left create_profile
\* through its except clause.
C12_Witness ==
  /\ \A p \in Threads : proc[p].pc = "idle" /\ ~proc[p].open
  /\ \E p \in Threads : /\ proc[p].op = "get_me"
                        /\ proc[p].kind = "raise"
                        /\ proc[p].status = 500
  /\ \E p \in Threads : /\ proc[p].op = "create_profile"
                        /\ proc[p].status = 500
                        /\ "error" \in DOMAIN proc[p].body

\* ---------------------------------------------------------------------------
\* Login and admin login: what a failed attempt reveals
\* ---------------------------------------------------------------------------

LoginEmails == {"a@b.com", "c@d.com"}

LoginPasswords == {"x", "y"}

LoginRegisterBodies == {[email |-> "a@b.com", password |-> "x", subscription_id |-> 1]}

LoginBodies == {[email |-> e, password |-> pw] : e \in LoginEmails, pw \in LoginPasswords}

AdminLoginBodies ==
  {[username |-> u, password |-> pw] : u \in {"admin", "root"}, pw \in {"admin123", "x"}}

LoginRegister == Register(LoginRegisterBodies)

LoginAttempt == Login(LoginBodies)

AdminLoginAttempt == AdminLogin(AdminLoginBodies)

LoginChangePassword ==
  AccountRequest("update_account", TokenHeaders, {[data |-> [password |-> "y"]]})

LoginDeleteAccount ==
  AdminRequest("delete_account", TokenHeaders, {[account_id |-> SeedSeq.accounts]})

NextLogin ==
  \/ LoginRegister
  \/ LoginAttempt
  \/ AdminLoginAttempt
  \/ LoginChangePassword
  \/ LoginDeleteAccount

SpecLogin == Init /\ [][NextLogin]_vars

\* The rows of the table a login reads whose name is the one presented.
Named(op, data) ==
  IF op = "login" THEN {a \in accounts : a.email = data.email}
  ELSE {a \in admins : a.username = data.username}

\* The id a row of that table carries, and the id a token carries.
RowId(op, a) == IF op = "login" THEN a.account_id ELSE a.admin_id

TokenId(op, tok) == IF op = "login" THEN tok.payload.account_id ELSE tok.payload.admin_id

InvalidCredentials == [error |-> "Invalid credentials"]

MaxRaceProfileId == 2

RacePlanId == 2

RaceRegister ==
  /\ seq.accounts = SeedSeq.accounts
  /\ Register({[email |-> "a@b.com", password |-> "x", subscription_id |-> RacePlanId]})

RaceProfileBodies ==
  {[name |-> "John", age_rating_pref |-> "PG-13"],
   [name |-> "John", age_rating_pref |-> "PG-13-EXTENDED"]}

RaceCreateProfile ==
  /\ seq.profiles <= MaxRaceProfileId
  /\ \E p \in Threads, hdr \in TokenHeaders, d \in RaceProfileBodies :
       Begin(p, "create_profile", hdr, [data |-> d])

NextRace ==
  \/ RaceRegister
  \/ RaceCreateProfile
  \/ \E p \in Threads : Connect(p)
  \/ \E p \in Threads : Query(p)
  \/ \E p \in Threads : Execute(p)
  \/ \E p \in Threads : Commit(p)
  \/ \E p \in Threads : Except(p)
  \/ \E p \in Threads : Finally(p)

SpecRace == Init /\ [][NextRace]_vars

\* The committed profiles of an account number fewer than its plan allows.
BelowLimit(account_id) ==
  \E a \in accounts : \E s \in subscriptions :
    /\ a.account_id = account_id
    /\ s.subscription_id = a.subscription_id
    /\ Cardinality(ProfilesOf(account_id)) < s.max_profiles

\* Thread p leaves the step `from`.
Leaves(p, from) == proc[p].pc = from /\ proc'[p].pc # from

\* C14: the limit of POST /api/profiles is tested once, against the committed
\* rows, and never again: a request that finds the account below its limit
\* goes on to the INSERT whatever another request is about to insert, its
\* INSERT succeeds whatever has been committed since the test, and its
\* commit adds one profile and is answered 201.  So of two interleaved
\* requests of an account with max_profiles - 1 profiles both can pass the
\* test and return 201, leaving max_profiles + 1 profiles.
C14_LimitTestedOnce ==
  [][\A p \in Threads :
       proc[p].op = "create_profile"
         => /\ (Leaves(p, "query") /\ BelowLimit(proc[p].id)) => proc'[p].pc = "execute"
            /\ (Leaves(p, "execute") /\ Len(proc[p].req.data.age_rating_pref) <= AgeRatingLen)
                 => proc'[p].pc = "commit"
            /\ Leaves(p, "commit")
                 => /\ proc'[p].status = 201
                    /\ \E r \in profiles' :
                         /\ r \notin profiles
                         /\ r.account_id = proc[p].id
                         /\ r.profile_id = proc'[p].body.profile_id
                         /\ profiles' = profiles \cup {r}]_vars

\* Both requests of one account are past their commit with 201 in hand, and
\* the account holds one profile more than its plan allows.
C14_Witness ==
  /\ \A p \in Threads : /\ proc[p].op = "create_profile"
                        /\ proc[p].pc = "finally"
                        /\ proc[p].status = 201
  /\ proc[1].id = proc[2].id
  /\ proc[1].body.profile_id # proc[2].body.profile_id
  /\ \E a \in accounts : \E s \in subscriptions :
       /\ a.account_id = proc[1].id
       /\ s.subscription_id = a.subscription_id
       /\ s.max_profiles = 2
       /\ Cardinality(ProfilesOf(a.account_id)) = s.max_profiles + 1

\* ---------------------------------------------------------------------------
\* Register, and the login that follows it
\* ---------------------------------------------------------------------------

Twice(s) == s \o s

\* An email longer than the column holds: 256 letters before the @.
LongEmail == Twice(Twice(Twice(Twice(Twice(Twice(Twice(Twice("a")))))))) \o "@b.com"

RegisterEmails == {"a@b.com", "c@d.com", LongEmail}

\* The Basic plan, a plan id never given out, 0, and no subscription_id.
RegisterBodies ==
  {[email |-> e, password |-> "x", subscription_id |-> s] :
     e \in RegisterEmails, s \in {SeedSeq.subscriptions - 3, NoPlanId, 0}}
    \cup {[email |-> "a@b.com", password |-> "x"]}

RegisterLoginBodies ==
  {[email |-> e, password |-> pw] : e \in {"a@b.com", "c@d.com"}, pw \in {"x", "y"}}

RegisterAttempt == Register(RegisterBodies)

RegisterLogin == Login(RegisterLoginBodies)

\* The admin removes the Basic plan.
RegisterDeletePlan ==
  AdminRequest("delete_subscription_plan", TokenHeaders,
               {[subscription_id |-> SeedSeq.subscriptions - 3]})

NextRegister ==
  \/ RegisterAttempt
  \/ RegisterLogin
  \/ SeedAdminLogin
  \/ RegisterDeletePlan

SpecRegister == Init /\ [][NextRegister]_vars

\* A register request with a password and an email of no account.
FreshRegister ==
  /\ last'.op = "register"
  /\ TruthyStr(last'.req.data, "email")
  /\ TruthyStr(last'.req.data, "password")
  /\ \A a \in accounts : a.email # last'.req.data.email

\* The request was answered 201 and exactly one account was inserted, with
\* the email and the plan of the request, and the token names it.
RegisteredOne ==
  /\ last'.status = 201
  /\ \E a \in accounts' :
       /\ a.account_id \notin {b.account_id : b \in accounts}
       /\ accounts' = accounts \cup {a}
       /\ a.email = last'.req.data.email
       /\ a.subscription_id = last'.req.data.subscription_id
       /\ last'.body.account_id = a.account_id
       /\ last'.body.token.payload.account_id = a.account_id
       /\ a.password_hash = hashpw(last'.req.data.password)

\* A login right after a register that answered 201, with its email and
\* password, is answered 200 for the account that register made.
LoginFollowsRegister ==
  (/\ last.op = "register"
   /\ last.status = 201
   /\ last'.op = "login"
   /\ last'.req.data.email = last.req.data.email
   /\ last'.req.data.password = last.req.data.password)
    => /\ last'.status = 200
       /\ last'.body.account_id = last.body.account_id
       /\ last'.body.token.payload.account_id = last.body.account_id

\* C15 as stated: a fresh email with any subscription_id of no plan is
\* answered 404, and a fresh email with a password and an existing plan
\* makes one account and is answered 201.
C15_RegisterAsStated ==
  [][(FreshRegister /\ Has(last'.req.data, "subscription_id"))
       => IF last'.req.data.subscription_id \notin {s.subscription_id : s \in subscriptions}
          THEN last'.status = 404 /\ UNCHANGED <<tables, seq>>
          ELSE RegisteredOne]_vars

\* C15 (amended): register changes a table only when it answers 201.  With a
\* fresh email and a subscription_id other than 0 that matches no plan it
\* answers 404 and inserts nothing; subscription_id 0 counts as missing and
\* is answered 400.  With a fresh email of at most 255 characters, a
\* password and an existing plan it inserts exactly one account bound to
\* that plan and answers 201 with a token for the new account id, and a
\* login that follows with the same email and password is answered 200 for
\* that account id; a longer email is answered 500 and inserts nothing.
C15_RegisterCreatesOnly201 ==
  [][/\ last'.op = "register" => (last'.status = 201 \/ UNCHANGED tables)
     /\ (FreshRegister /\ Has(last'.req.data, "subscription_id"))
          => LET data == last'.req.data
             IN IF data.subscription_id = 0
                THEN last'.status = 400 /\ UNCHANGED <<tables, seq>>
                ELSE IF data.subscription_id \notin {s.subscription_id : s \in subscriptions}
                THEN last'.status = 404 /\ UNCHANGED <<tables, seq>>
                ELSE IF Len(data.email) > EmailLen
                THEN last'.status = 500 /\ UNCHANGED tables
                ELSE RegisteredOne
     /\ LoginFollowsRegister]_vars

\* A login was answered 200 for the second account registered, which is
\* bound to the Basic plan.
C15_Witness ==
  /\ last.op = "login"
  /\ last.status = 200
  /\ last.body.account_id = MaxAccountId
  /\ last.body.token.payload.account_id = MaxAccountId
  /\ \E a \in accounts : /\ a.account_id = last.body.account_id
                         /\ a.email = last.req.data.email
                         /\ a.subscription_id = SeedSeq.subscriptions - 3
  /\ seq.accounts = MaxAccountId + 1

\* ---------------------------------------------------------------------------
\* Partial updates
\* ---------------------------------------------------------------------------

PartialOps ==
  {"update_profile", "update_account", "update_subscription_plan",
   "admin_update_account", "admin_update_content", "update_episode"}

\* One body per handler with every field it reads; some values are new and
\* some repeat what the addressed row holds.
FullBody(op) ==
  CASE op = "update_profile" -> [name |-> "Jane", age_rating_pref |-> "R"]
    [] op = "update_account" -> [email |-> "a@b.com", password |-> "y"]
    [] op = "update_subscription_plan" ->
         [name |-> "Basic", max_profiles |-> JsonInt(0, 3), monthly_price |-> 999]
    [] op = "admin_update_account" -> [email |-> "a@b.com", subscription_id |-> 2]
    [] op = "admin_update_content" ->
         [title |-> "The Space Odyssey",
          description |-> "An epic journey through space and time",
          release_year |-> JsonInt(0, 2001)]
    [] op = "update_episode" -> [title |-> "Prologue", episode_number |-> JsonInt(0, 1)]

\* The body f with the keys in S only.
Restrict(f, S) == [k \in S |-> f[k]]

\* Every body with some of the fields, with none of them, and with an empty
\* string for the first of them.
PartialBodies(op) ==
  {Restrict(FullBody(op), S) : S \in SUBSET DOMAIN FullBody(op)}
    \cup {[k \in {f} |-> ""] : f \in {"name", "email", "title"} \cap DOMAIN FullBody(op)}

\* The URL of the request: the first row of the table the handler updates,
\* and for update_profile also the id of no profile.
PartialUrls(op) ==
  CASE op = "update_profile" -> {[profile_id |-> 1], [profile_id |-> 2]}
    [] op = "update_account" -> {<<>>}
    [] op = "update_subscription_plan" -> {[subscription_id |-> 1]}
    [] op = "admin_update_account" -> {[account_id |-> 1]}
    [] op = "admin_update_content" -> {[content_id |-> 1]}
    [] op = "update_episode" -> {[episode_id |-> 1]}

PartialReqs(op) ==
  {[k \in DOMAIN u \cup {"data"} |-> IF k = "data" THEN d ELSE u[k]] :
     u \in PartialUrls(op), d \in PartialBodies(op)}

PartialRegister ==
  /\ seq.accounts = SeedSeq.accounts
  /\ Register({[email |-> "a@b.com", password |-> "x", subscription_id |-> 1]})

PartialCreateProfile ==
  /\ seq.profiles = SeedSeq.profiles
  /\ AccountRequest("create_profile", TokenHeaders,
                    {[data |-> [name |-> "John", age_rating_pref |-> "PG-13"]]})

\* The issued tokens of accounts, or of admins.
PartialHeaders(claim) == {Bearer(tok) : tok \in {k \in issued : claim \in DOMAIN k.payload}}

PartialAccountUpdate ==
  \E op \in {"update_profile", "update_account"} :
    AccountRequest(op, PartialHeaders("account_id"), PartialReqs(op))

PartialAdminUpdate ==
  \E op \in PartialOps \ {"update_profile", "update_account"} :
    AdminRequest(op, PartialHeaders("admin_id"), PartialReqs(op))

NextPartial ==
  \/ PartialRegister
  \/ PartialCreateProfile
  \/ SeedAdminLogin
  \/ PartialAccountUpdate
  \/ PartialAdminUpdate

SpecPartial == Init /\ [][NextPartial]_vars

\* The column a field of the body is stored in.
ColumnOf(k) == IF k = "password" THEN "password_hash" ELSE k

\* Between the row sets old and new no row came or went, and a column of a
\* row differs only in the row `id` and only if it is one of `columns`.
OnlyColumns(old, new, key, id, columns) ==
  /\ {r[key] : r \in new} = {r[key] : r \in old}
  /\ \A r \in old : \A r2 \in new :
       r2[key] = r[key]
         => \A c \in DOMAIN r : r2[c] # r[c] => (r[key] = id /\ c \in columns)

\* The row a request addresses exists (for update_profile: and is the
\* caller's).
Addressed(op, hdr, req) ==
  CASE op = "update_profile" ->
         \E p \in profiles : /\ p.profile_id = req.profile_id
                             /\ p.account_id = token_required(hdr, now).id
    [] op = "update_account" -> \E a \in accounts : a.account_id = token_required(hdr, now).id
    [] op = "update_subscription_plan" ->
         \E s \in subscriptions : s.subscription_id = req.subscription_id
    [] op = "admin_update_account" -> \E a \in accounts : a.account_id = req.account_id
    [] op = "admin_update_content" -> \E c \in content : c.content_id = req.content_id
    [] op = "update_episode" -> \E e \in episodes : e.episode_id = req.episode_id

\* C16: an update handler writes only fields that are present in the body:
\* after update_profile, update_account, update_subscription_plan,
\* admin_update_account, admin_update_content or update_episode a column
\* differs from before only in the addressed row and only if its field is
\* in the body; no row comes or goes and the other tables stay as they
\* were.  With a body that has none of the fields the handler changes
\* nothing and answers 200 (the addressed row existing).
C16_OnlyPresentFieldsWritten ==
  [][(last'.op \in PartialOps /\ last'.invoked)
       => LET op == last'.op
              req == last'.req
              columns == {ColumnOf(k) : k \in DOMAIN req.data}
              me == token_required(last'.hdr, now).id
          IN /\ OnlyColumns(profiles, profiles', "profile_id",
                            IF op = "update_profile" THEN req.profile_id ELSE 0, columns)
             /\ OnlyColumns(accounts, accounts', "account_id",
                            CASE op = "update_account" -> me
                              [] op = "admin_update_account" -> req.account_id
                              [] OTHER -> 0, columns)
             /\ OnlyColumns(subscriptions, subscriptions', "subscription_id",
                            IF op = "update_subscription_plan" THEN req.subscription_id ELSE 0,
                            columns)
             /\ OnlyColumns(content, content', "content_id",
                            IF op = "admin_update_content" THEN req.content_id ELSE 0, columns)
             /\ OnlyColumns(episodes, episodes', "episode_id",
                            IF op = "update_episode" THEN req.episode_id ELSE 0, columns)
             /\ UNCHANGED <<admins, genres, content_genres, media_files, seasons, wishlist,
                            viewing_history>>
             /\ (DOMAIN req.data = {} /\ Addressed(op, last'.hdr, req))
                  => last'.status = 200 /\ UNCHANGED <<tables, seq>>]_vars

\* update_profile with only a name was answered 200: the profile has the
\* new name and the age rating it was created with.
C16_Witness ==
  /\ last.op = "update_profile"
  /\ last.status = 200
  /\ DOMAIN last.req.data = {"name"}
  /\ \E p \in profiles : /\ p.profile_id = last.req.profile_id
                         /\ p.name = last.req.data.name
                         /\ p.name = "Jane"
                         /\ p.age_rating_pref = "PG-13"

\* ---------------------------------------------------------------------------
\* Genre links of a content item
\* ---------------------------------------------------------------------------

\* A seed content item and the id of none; two seed genres and the id of none.
LinkContentIds == {SeedSeq.content - 4, NoContentId}

LinkGenreIds == {SeedSeq.genres - 10, SeedSeq.genres - 9, MaxGenreId + 1}

LinkReqs == {[content_id |-> c, genre_id |-> g] : c \in LinkContentIds, g \in LinkGenreIds}

LinkGenre == AdminRequest("link_genre_to_content", TokenHeaders, LinkReqs)

UnlinkGenre == AdminRequest("unlink_genre_from_content", TokenHeaders, LinkReqs)

LinkDeleteGenre ==
  AdminRequest("delete_genre", TokenHeaders, {[genre_id |-> SeedSeq.genres - 9]})

LinkDeleteContent ==
  AdminRequest("admin_delete_content", TokenHeaders, {[content_id |-> SeedSeq.content - 4]})

NextLinks ==
  \/ SeedAdminLogin
  \/ LinkGenre
  \/ UnlinkGenre
  \/ LinkDeleteGenre
  \/ LinkDeleteContent

SpecLinks == Init /\ [][NextLinks]_vars

\* The (content, genre) pair of the request just served.
LinkPair == <<last'.req.content_id, last'.req.genre_id>>

\* Nothing but the links changed.
OnlyLinksChange ==
  UNCHANGED <<subscriptions, accounts, admins, profiles, content, genres, media_files,
              seasons, episodes, wishlist, viewing_history>>

\* DELETE of a pair is answered 200 whether or not the link exists, and the
\* link is absent afterwards.
UnlinkNeverFails ==
  (last'.op = "unlink_genre_from_content" /\ last'.invoked)
    => /\ last'.status = 200
       /\ content_genres' = content_genres \ {LinkPair}
       /\ OnlyLinksChange

\* C17 as stated: POST of any (c, g) is answered 201 and leaves the link
\* (c, g); DELETE never fails.
C17_LinkAsStated ==
  [][/\ (last'.op = "link_genre_to_content" /\ last'.invoked)
          => /\ last'.status = 201
             /\ content_genres' = content_genres \cup {LinkPair}
     /\ UnlinkNeverFails]_vars

\* C17 (amended): for an existing content item c and an existing genre g,
\* POST /api/admin/content/{c}/genres/{g} is answered 201 whether or not the
\* link exists and leaves exactly the link (c, g) added, so a second POST
\* changes nothing; when c names no content item or g no genre the INSERT
\* violates a foreign key: the answer is 500 and nothing changes.  DELETE of
\* a pair is answered 200 whether or not the link exists, and the link is
\* absent afterwards.
C17_LinkIdempotentForExisting ==
  [][/\ (last'.op = "link_genre_to_content" /\ last'.invoked)
          => IF /\ \E c \in content : c.content_id = last'.req.content_id
                /\ \E g \in genres : g.genre_id = last'.req.genre_id
             THEN /\ last'.status = 201
                  /\ content_genres' = content_genres \cup {LinkPair}
                  /\ OnlyLinksChange
                  /\ last'.repeat => UNCHANGED <<tables, seq>>
             ELSE /\ last'.status = 500
                  /\ UNCHANGED <<tables, seq>>
     /\ UnlinkNeverFails]_vars

\* The same POST was answered 201 twice in a row, for a link that the seed
\* data does not hold.
C17_Witness ==
  /\ last.op = "link_genre_to_content"
  /\ last.status = 201
  /\ last.repeat
  /\ <<last.req.content_id, last.req.genre_id>> \in content_genres \ SeedContentGenres

\* ---------------------------------------------------------------------------
\* A plan from its creation to its deletion
\* ---------------------------------------------------------------------------

\* The first id the sequence gives to a new plan.
NewPlanId == SeedSeq.subscriptions

\* A new plan, a plan with the name of a seed plan, and a body without price.
PlanLifeBodies ==
  {[name |-> "Enterprise", max_profiles |-> JsonInt(0, 10), monthly_price |-> 4499],
   [name |-> "Basic", max_profiles |-> JsonInt(0, 1), monthly_price |-> 999],
   [name |-> "Enterprise", max_profiles |-> JsonInt(0, 10)]}

PlanLifeCreate ==
  AdminRequest("create_subscription", TokenHeaders, {[data |-> d] : d \in PlanLifeBodies})

PlanLifeDelete ==
  AdminRequest("delete_subscription_plan", TokenHeaders,
               {[subscription_id |-> i] : i \in {NewPlanId, NewPlanId - 1}})

\* An account subscribes to the new plan.
PlanLifeRegister ==
  /\ seq.accounts = SeedSeq.accounts
  /\ Register({[email |-> "a@b.com", password |-> "x", subscription_id |-> NewPlanId]})

NextPlanLife ==
  \/ SeedAdminLogin
  \/ PlanLifeCreate
  \/ PlanLifeDelete
  \/ PlanLifeRegister

SpecPlanLife == Init /\ [][NextPlanLife]_vars

OnlyPlansChange ==
  UNCHANGED <<accounts, admins, profiles, content, genres, content_genres, media_files,
              seasons, episodes, wishlist, viewing_history>>

\* POST /api/admin/subscriptions with the three fields, a name no plan has
\* and a max_profiles that fits the column is answered 201; a 201 carries
\* an id no plan had, and exactly the plan of the request is added under it.
CreatedPlan ==
  (last'.op = "create_subscription" /\ last'.invoked)
    => LET data == last'.req.data
       IN /\ (/\ DOMAIN data = {"name", "max_profiles", "monthly_price"}
              /\ FitsInt4(data.max_profiles)
              /\ \A s \in subscriptions : s.name # data.name)
               => last'.status = 201
          /\ last'.status = 201
               => /\ \A s \in subscriptions : s.subscription_id # last'.body.subscription_id
                  /\ subscriptions' = subscriptions \cup
                       {[subscription_id |-> last'.body.subscription_id, name |-> data.name,
                         monthly_price |-> data.monthly_price,
                         max_profiles |-> data.max_profiles.lo]}
                  /\ OnlyPlansChange

\* DELETE of the id of a plan is answered 200 and removes exactly that plan
\* (its subscribers are left without a plan); DELETE of the id of no plan,
\* as the second DELETE of an id is, is answered 404 and changes nothing.
DeletedPlan ==
  (last'.op = "delete_subscription_plan" /\ last'.invoked)
    => LET id == last'.req.subscription_id
       IN IF \E s \in subscriptions : s.subscription_id = id
          THEN /\ last'.status = 200
               /\ subscriptions' = {s \in subscriptions : s.subscription_id # id}
               /\ Cardinality(subscriptions') = Cardinality(subscriptions) - 1
               /\ accounts' = {IF a.subscription_id = id
                               THEN [a EXCEPT !.subscription_id = NULL] ELSE a : a \in accounts}
               /\ UNCHANGED <<admins, profiles, content, genres, content_genres, media_files,
                              seasons, episodes, wishlist, viewing_history>>
          ELSE /\ last'.status = 404
               /\ UNCHANGED <<tables, seq>>

SecondDelete ==
  (/\ last.op = "delete_subscription_plan"
   /\ last.status = 200
   /\ last'.op = "delete_subscription_plan"
   /\ last'.invoked
   /\ last'.req = last.req)
    => last'.status = 404 /\ UNCHANGED <<tables, seq>>

\* C18: a plan created by POST /api/admin/subscriptions is answered 201
\* with an id no existing plan uses; DELETE of that id then is answered 200
\* and removes exactly that plan, and a second DELETE of the same id is
\* answered 404 and changes nothing.
C18_PlanCreateDeleteDelete ==
  [][CreatedPlan /\ DeletedPlan /\ SecondDelete]_vars

\* The second DELETE of the created plan was answered 404; the seed plans
\* are all there and the account that subscribed has no plan.
C18_Witness ==
  /\ last.op = "delete_subscription_plan"
  /\ last.status = 404
  /\ last.req.subscription_id = NewPlanId
  /\ seq.subscriptions > NewPlanId
  /\ subscriptions = SeedSubscriptions
  /\ \E a \in accounts : a.subscription_id = NULL

\* ---------------------------------------------------------------------------
\* Interleaved wishlist adds and history updates of one pair
\* ---------------------------------------------------------------------------

PairsRegister ==
  /\ seq.accounts = SeedSeq.accounts
  /\ Register({[email |-> "a@b.com", password |-> "x", subscription_id |-> 1]})

PairsCreateProfile ==
  /\ seq.profiles = SeedSeq.profiles
  /\ AccountRequest("create_profile", PartialHeaders("account_id"),
                    {[data |-> [name |-> "John", age_rating_pref |-> "PG-13"]]})

\* The first profile with a seed content item, and with the id of none.
PairsWishlistReqs ==
  {[profile_id |-> SeedSeq.profiles, content_id |-> c] : c \in {OwnerContentId, NoContentId}}

\* Two positions in the range of the column and one beyond it.
PairsTimestamps == {JsonInt(0, 10), JsonInt(0, 20), JsonInt(1, 0)}

PairsHistoryReqs ==
  {[profile_id |-> SeedSeq.profiles, content_id |-> OwnerContentId,
    data |-> [last_timestamp |-> v]] : v \in PairsTimestamps}

PairsAddToWishlist ==
  \E p \in Threads, hdr \in PartialHeaders("account_id"), req \in PairsWishlistReqs :
    Begin(p, "add_to_wishlist", hdr, req)

PairsUpdateHistory ==
  \E p \in Threads, hdr \in PartialHeaders("account_id"), req \in PairsHistoryReqs :
    Begin(p, "update_history", hdr, req)

\* A DELETE of the pair's row, served while no transaction holds a row
\* uncommitted (it would wait for that transaction otherwise).
PairsDelete ==
  /\ \A p \in Threads : proc[p].writes = NoWrites
  /\ \E op \in {"remove_from_wishlist", "delete_history"} :
       AccountRequest(op, PartialHeaders("account_id"),
                      {[profile_id |-> SeedSeq.profiles, content_id |-> OwnerContentId]})

NextPairs ==
  \/ PairsRegister
  \/ PairsCreateProfile
  \/ PairsAddToWishlist
  \/ PairsUpdateHistory
  \/ PairsDelete
  \/ \E p \in Threads : Connect(p)
  \/ \E p \in Threads : Query(p)
  \/ \E p \in Threads : Execute(p)
  \/ \E p \in Threads : Commit(p)
  \/ \E p \in Threads : Except(p)
  \/ \E p \in Threads : Finally(p)

SpecPairs == Init /\ [][NextPairs]_vars

\* The rows of a (profile, content) pair that a table holds, committed or
\* not: the committed ones, and the transactions holding one uncommitted.
WishlistRows(pair) ==
  (IF pair \in wishlist THEN 1 ELSE 0)
    + Cardinality({p \in Threads : pair \in proc[p].writes.wishlist})

PairHistory(rows, pair) == {h \in rows : <<h.profile_id, h.content_id>> = pair}

HistoryWriters(pair) ==
  {p \in Threads : PairHistory(proc[p].writes.viewing_history, pair) # {}}

PairsSeen ==
  wishlist \cup {<<h.profile_id, h.content_id>> : h \in viewing_history}
    \cup UNION {proc[p].writes.wishlist
                  \cup {<<h.profile_id, h.content_id>> : h \in proc[p].writes.viewing_history} :
                p \in Threads}

AtMostOneRowPerPair ==
  \A pair \in PairsSeen :
    /\ WishlistRows(pair) <= 1
    /\ Cardinality(PairHistory(viewing_history, pair)) <= 1
    /\ Cardinality(HistoryWriters(pair)) <= 1

\* The request of thread p.
PairOf(p) == <<proc[p].req.profile_id, proc[p].req.content_id>>

PairOwned(p) ==
  \E r \in profiles : r.profile_id = proc[p].req.profile_id /\ r.account_id = proc[p].id

\* A wishlist add or history update that finds the profile to be the
\* caller's goes on to its INSERT; when `sound(p)` holds the INSERT
\* succeeds, after waiting for a transaction that holds the pair's row;
\* the commit leaves the row that the statement wrote, with the position
\* written in the case of the history, and is answered 201 or 200.
PairSteps(sound(_)) ==
  \A p \in Threads :
    proc[p].op \in {"add_to_wishlist", "update_history"}
      => /\ (Leaves(p, "query") /\ PairOwned(p)) => proc'[p].pc = "execute"
         /\ (Leaves(p, "execute") /\ sound(p)) => proc'[p].pc = "commit"
         /\ Leaves(p, "commit")
              => IF proc[p].op = "add_to_wishlist"
                 THEN /\ proc'[p].status = 201
                      /\ wishlist' = wishlist \cup proc[p].writes.wishlist
                      /\ proc[p].stmt.rowcount = 1 => PairOf(p) \in wishlist'
                      /\ viewing_history' = viewing_history
                 ELSE /\ proc'[p].status = 200
                      /\ PairHistory(viewing_history', PairOf(p))
                           = {[profile_id |-> proc[p].req.profile_id,
                               content_id |-> proc[p].req.content_id,
                               last_timestamp |-> proc[p].req.data.last_timestamp.lo]}
                      /\ wishlist' = wishlist

AnyRequest(p) == TRUE

\* The content item exists and the position fits the INTEGER column.
SoundRequest(p) ==
  /\ \E c \in content : c.content_id = proc[p].req.content_id
  /\ proc[p].op = "update_history" => FitsInt4(proc[p].req.data.last_timestamp)

\* C19 as stated: at most one row per pair in every state, and every
\* interleaved add or update of a pair of the caller's profile succeeds.
C19_PairsAsStated ==
  []AtMostOneRowPerPair /\ [][PairSteps(AnyRequest)]_vars

\* C19 (amended): in every reachable state, also between the steps of
\* interleaved requests, the wishlist and the viewing history hold at most
\* one row per (profile, content) pair.  Two interleaved wishlist adds of
\* the same pair, of the caller's profile and an existing content item, are
\* both answered 201; two interleaved history updates of such a pair with
\* positions in the range of the INTEGER column are both answered 200 and
\* leave one row whose last_timestamp is the one committed last.  With the
\* id of no content item, or a position out of range, the statement fails
\* and the answer is 500.
C19_OneRowPerPair ==
  []AtMostOneRowPerPair /\ [][PairSteps(SoundRequest)]_vars

\* Both requests of an interleaved pair of history updates are past their
\* commit with 200 and have written different positions; the one row of the
\* pair holds one of the two.
C19_Witness ==
  /\ \A p \in Threads : /\ proc[p].op = "update_history"
                        /\ proc[p].pc = "finally"
                        /\ proc[p].status = 200
  /\ PairOf(1) = PairOf(2)
  /\ proc[1].req.data.last_timestamp # proc[2].req.data.last_timestamp
  /\ \E h \in viewing_history :
       /\ PairHistory(viewing_history, PairOf(1)) = {h}
       /\ h.last_timestamp \in {proc[p].req.data.last_timestamp.lo : p \in Threads}
  /\ PairOf(1) \in wishlist

\* ---------------------------------------------------------------------------
\* The profile limit over creations and deletions, one request at a time
\* ---------------------------------------------------------------------------

\* Customers register on the Basic plan or on the plan without profiles that
\* the administrator adds, and create and delete profiles.
LimitRegister ==
  Register({[email |-> "a@b.com", password |-> "x", subscription_id |-> s] :
              s \in {SeedSeq.subscriptions - 3, SeedSeq.subscriptions}})

LimitCreateProfile ==
  /\ AccountRequest("create_profile", TokenHeaders,
                    {[data |-> [name |-> n, age_rating_pref |-> "PG-13"]] : n \in {"John", "Jane"}})
  /\ seq'.profiles <= MaxPlanProfileId + 1

LimitDeleteProfile ==
  AccountRequest("delete_profile", TokenHeaders,
                 {[profile_id |-> i] : i \in 1..MaxPlanProfileId})

NextLimit ==
  \/ SeedAdminLogin
  \/ CreateSubscription
  \/ LimitRegister
  \/ LimitCreateProfile
  \/ LimitDeleteProfile

SpecLimit == Init /\ [][NextLimit]_vars

\* C20: whatever max_profiles >= 0 its plan holds, 0 included, an account
\* never holds more profiles than max_profiles after requests served one at
\* a time.
C20_NeverAbovePlanLimit ==
  \A a \in accounts : \A s \in subscriptions :
    s.subscription_id = a.subscription_id
      => Cardinality(ProfilesOf(a.account_id)) <= s.max_profiles

\* ---------------------------------------------------------------------------
\* The profile limit when the plan changes
\* ---------------------------------------------------------------------------

MaxChangeProfileId == 2

\* A customer registers on the Standard plan, creates profiles, and moves to
\* the Basic plan; the administrator moves the account, or lowers the
\* max_profiles of the Standard plan.
ChangeRegister ==
  /\ seq.accounts = SeedSeq.accounts
  /\ Register({[email |-> "a@b.com", password |-> "x", subscription_id |-> RacePlanId]})

ChangeCreateProfile ==
  /\ seq.profiles <= MaxChangeProfileId
  /\ AccountRequest("create_profile", PartialHeaders("account_id"),
                    {[data |-> [name |-> "John", age_rating_pref |-> "PG-13"]]})

ChangeDeleteProfile ==
  AccountRequest("delete_profile", PartialHeaders("account_id"),
                 {[profile_id |-> i] : i \in 1..MaxChangeProfileId})

ChangeUpdateSubscription ==
  AccountRequest("update_subscription", PartialHeaders("account_id"),
                 {[data |-> [subscription_id |-> s]] : s \in {RacePlanId - 1, RacePlanId}})

ChangeAdminUpdateAccount ==
  AdminRequest("admin_update_account", PartialHeaders("admin_id"),
               {[account_id |-> SeedSeq.accounts,
                 data |-> [subscription_id |-> RacePlanId - 1]]})

ChangeUpdatePlan ==
  AdminRequest("update_subscription_plan", PartialHeaders("admin_id"),
               {[subscription_id |-> RacePlanId, data |-> [max_profiles |-> JsonInt(0, 1)]]})

NextChange ==
  \/ ChangeRegister
  \/ SeedAdminLogin
  \/ ChangeCreateProfile
  \/ ChangeDeleteProfile
  \/ ChangeUpdateSubscription
  \/ ChangeAdminUpdateAccount
  \/ ChangeUpdatePlan

SpecChange == Init /\ [][NextChange]_vars

\* C21: in every state reached by requests served one at a time, plan
\* changes and lowered limits included, an account with a plan holds at
\* most that plan's max_profiles profiles.
C21_WithinLimitAfterPlanChange ==
  \A a \in accounts : \A s \in subscriptions :
    (a.subscription_id # NULL /\ s.subscription_id = a.subscription_id)
      => Cardinality(ProfilesOf(a.account_id)) <= s.max_profiles

\* ---------------------------------------------------------------------------
\* Accounts and admins as separate principals
\* ---------------------------------------------------------------------------

\* The issued tokens of a principal, expired or not, with and without 'Bearer '.
IssuedHeaders(claim) ==
  UNION {{Bearer(tok), Bare(tok)} : tok \in {k \in issued : claim \in DOMAIN k.payload}}

\* C22: a token issued by admin login carries admin_id and is_admin and no
\* account_id, and every account route rejects it with 401 without calling
\* its handler; a token issued by register or login carries no is_admin and
\* no admin route calls its handler for it; no issued token passes both
\* guards.
C22_PrincipalsDisjoint ==
  /\ \A tok \in issued :
       IF "admin_id" \in DOMAIN tok.payload
       THEN DOMAIN tok.payload = {"admin_id", "is_admin", "exp"} /\ tok.payload.is_admin
       ELSE DOMAIN tok.payload = {"account_id", "exp"}
  /\ \A op \in AccountOps : \A hdr \in IssuedHeaders("admin_id") :
       Refused(account_request(op, DB, hdr, AnyReq, now), 401)
  /\ \A op \in AdminOps : \A hdr \in IssuedHeaders("account_id") :
       /\ ~admin_request(op, DB, hdr, AnyReq, now).invoked
       /\ admin_request(op, DB, hdr, AnyReq, now).status \in {401, 403}
       /\ admin_request(op, DB, hdr, AnyReq, now).db = DB
  /\ \A tok \in issued : \A hdr \in {Bearer(tok), Bare(tok)} :
       ~(token_required(hdr, now).pass /\ admin_token_required(hdr, now).pass)

\* GET /api/auth/me with the unexpired token of the administrator was
\* answered 401 without calling the handler, while an account existed.
C22_Witness ==
  /\ last.op = "get_me"
  /\ last.hdr \in UnexpiredHeaders("admin_id")
  /\ last.status = 401
  /\ ~last.invoked
  /\ accounts # {}
  /\ admin_token_required(last.hdr, now).pass

\* ---------------------------------------------------------------------------
\* The type of a content item
\* ---------------------------------------------------------------------------

\* Content items the administrator may add in these runs.
MaxTypeCreated == 2

TypeNames == {"Movie", "Show", "Series", "movie"}

\* Bodies with every type, and one without a type.
TypeCreateBodies ==
  {[title |-> "Heat", type |-> t, description |-> "Crime", release_year |-> JsonInt(0, 1995)] :
     t \in TypeNames}
    \cup {[title |-> "Heat", description |-> "Crime", release_year |-> JsonInt(0, 1995)]}

\* Updates that carry a type next to, or instead of, the fields the handler
\* reads.
TypeUpdateBodies ==
  {[type |-> "Series"], [type |-> "Show", title |-> "Heat 2"],
   [type |-> "Movie", description |-> "Drama", release_year |-> JsonInt(0, 2000)]}

TypeCreateContent ==
  /\ seq.content < SeedSeq.content + MaxTypeCreated
  /\ AdminRequest("create_content", PartialHeaders("admin_id"),
                  {[data |-> d] : d \in TypeCreateBodies})

TypeUpdateContent ==
  AdminRequest("admin_update_content", PartialHeaders("admin_id"),
               {[content_id |-> c, data |-> d] :
                  c \in {ShowContentId, SeedSeq.content}, d \in TypeUpdateBodies})

NextTypes ==
  \/ SeedAdminLogin
  \/ TypeCreateContent
  \/ TypeUpdateContent

SpecTypes == Init /\ [][NextTypes]_vars

TypeIsMovieOrShow == \A c \in content : c.type \in {"Movie", "Show"}

\* POST /api/admin/content with a type other than 'Movie' and 'Show'.
OtherTypeRefused ==
  (/\ last'.op = "create_content"
   /\ last'.invoked
   /\ Has(last'.req.data, "type")
   /\ last'.req.data.type \notin {"Movie", "Show"})
    => last'.status = 400 /\ UNCHANGED <<tables, seq>>

\* The rows that stay keep their type, whatever the request.
TypeKept ==
  \A c \in content : \A d \in content' : d.content_id = c.content_id => d.type = c.type

\* C23: every content row has type 'Movie' or 'Show'; POST
\* /api/admin/content with another type is answered 400 and inserts
\* nothing; no request changes the type of an existing content row.
C23_TypeMovieOrShow ==
  []TypeIsMovieOrShow /\ [][OtherTypeRefused /\ TypeKept]_vars

\* An update carrying type 'Movie' changed fields of a show the
\* administrator had added and left it a show.
C23_Witness ==
  /\ last.op = "admin_update_content"
  /\ last.status = 200
  /\ last.req.content_id = SeedSeq.content
  /\ last.req.data.type = "Movie"
  /\ \E c \in content : /\ c.content_id = SeedSeq.content
                        /\ c.type = "Show"
                        /\ c.description = "Drama"
  /\ seq.content = SeedSeq.content + 1

\* ---------------------------------------------------------------------------
\* References between accounts, profiles, content, wishlists and histories
\* ---------------------------------------------------------------------------

\* Profiles the customer may create in these runs.
MaxRefProfileId == 2

RefItemReqs ==
  {[profile_id |-> p, content_id |-> c] :
     p \in 1..MaxRefProfileId, c \in {OwnerContentId, NoContentId}}

RefHistoryReqs ==
  {[profile_id |-> r.profile_id, content_id |-> r.content_id,
    data |-> [last_timestamp |-> JsonInt(0, 5)]] : r \in RefItemReqs}

RefRegister ==
  /\ seq.accounts = SeedSeq.accounts
  /\ Register({[email |-> "a@b.com", password |-> "x", subscription_id |-> RacePlanId]})

RefCreateProfile ==
  /\ seq.profiles <= MaxRefProfileId
  /\ AccountRequest("create_profile", PartialHeaders("account_id"),
                    {[data |-> [name |-> "John", age_rating_pref |-> "PG-13"]]})

RefAddToWishlist ==
  AccountRequest("add_to_wishlist", PartialHeaders("account_id"), RefItemReqs)

RefUpdateHistory ==
  AccountRequest("update_history", PartialHeaders("account_id"), RefHistoryReqs)

RefDeleteProfile ==
  AccountRequest("delete_profile", PartialHeaders("account_id"),
                 {[profile_id |-> MaxRefProfileId]})

RefDeleteAccount ==
  AdminRequest("delete_account", PartialHeaders("admin_id"),
               {[account_id |-> SeedSeq.accounts]})

RefDeleteContent ==
  AdminRequest("admin_delete_content", PartialHeaders("admin_id"),
               {[content_id |-> OwnerContentId]})

NextRefs ==
  \/ RefRegister
  \/ SeedAdminLogin
  \/ RefCreateProfile
  \/ RefAddToWishlist
  \/ RefUpdateHistory
  \/ RefDeleteProfile
  \/ RefDeleteAccount
  \/ RefDeleteContent

SpecRefs == Init /\ [][NextRefs]_vars

ReferencesExist ==
  /\ \A p \in profiles : p.account_id \in AccountIds(DB)
  /\ \A w \in wishlist :
       /\ \E p \in profiles : p.profile_id = w[1]
       /\ \E c \in content : c.content_id = w[2]
  /\ \A h \in viewing_history :
       /\ \E p \in profiles : p.profile_id = h.profile_id
       /\ \E c \in content : c.content_id = h.content_id

\* DELETE /api/admin/accounts/{id} of an account removes its profiles and
\* their wishlist and history rows, and no other.
AccountCascade ==
  (last'.op = "delete_account" /\ last'.status = 200)
    => LET id == last'.req.account_id
           pids == {p.profile_id : p \in {q \in profiles : q.account_id = id}}
       IN /\ id \in AccountIds(DB)
          /\ accounts' = {a \in accounts : a.account_id # id}
          /\ profiles' = {p \in profiles : p.account_id # id}
          /\ wishlist' = {w \in wishlist : w[1] \notin pids}
          /\ viewing_history' = {h \in viewing_history : h.profile_id \notin pids}

\* A request with the token of an account that is no more creates no
\* profile, wishlist or history row.
DeletedAccountCreatesNothing ==
  (/\ last'.op \in {"create_profile", "add_to_wishlist", "update_history"}
   /\ last'.invoked
   /\ last'.hdr.token.payload.account_id \notin AccountIds(DB))
    => /\ last'.status \in {404, 500}
       /\ UNCHANGED <<profiles, wishlist, viewing_history>>

\* C24: every profile references an existing account, every wishlist and
\* viewing-history row an existing profile and an existing content item;
\* DELETE /api/admin/accounts/{id} removes the account's profiles with
\* their wishlist and history rows; a later request with the deleted
\* account's unexpired token creates no profile, wishlist or history row.
C24_ReferencesExist ==
  []ReferencesExist /\ [][AccountCascade /\ DeletedAccountCreatesNothing]_vars

\* POST /api/profiles with the token of the deleted account, which had two
\* profiles, was answered 500 and created nothing.
C24_Witness ==
  /\ last.op = "create_profile"
  /\ last.status = 500
  /\ last.hdr \in UnexpiredHeaders("account_id")
  /\ accounts = {}
  /\ profiles = {}
  /\ seq.profiles > MaxRefProfileId

\* ---------------------------------------------------------------------------
\* The subscribers of a deleted plan
\* ---------------------------------------------------------------------------

\* Accounts and profiles created in these runs.
MaxDropAccountId == 2
MaxDropProfileId == 2

DropPlanIds == {RacePlanId - 1, RacePlanId}

\* Two customers, each on either plan; all with password 'x'.
DropRegisterBodies ==
  {[email |-> e, password |-> "x", subscription_id |-> s] :
     e \in {"a@b.com", "c@d.com"}, s \in DropPlanIds}

DropRegister ==
  /\ seq.accounts <= MaxDropAccountId
  /\ Register(DropRegisterBodies)

DropCreateProfile ==
  /\ seq.profiles <= MaxDropProfileId
  /\ AccountRequest("create_profile", PartialHeaders("account_id"),
                    {[data |-> [name |-> "John", age_rating_pref |-> "PG-13"]]})

DropDeletePlan ==
  AdminRequest("delete_subscription_plan", PartialHeaders("admin_id"),
               {[subscription_id |-> s] : s \in DropPlanIds})

DropLogin ==
  Login({[email |-> "a@b.com", password |-> p] : p \in {"x", "y"}})

DropGetSubscription ==
  AccountRequest("get_subscription", PartialHeaders("account_id"), {AnyReq})

NextPlanDrop ==
  \/ DropRegister
  \/ SeedAdminLogin
  \/ DropCreateProfile
  \/ DropDeletePlan
  \/ DropLogin
  \/ DropGetSubscription

SpecPlanDrop == Init /\ [][NextPlanDrop]_vars

\* The deletion of a plan keeps every account, without a plan if the plan
\* was its own and as it was otherwise, and keeps every profile.
SubscribersKept ==
  (last'.op = "delete_subscription_plan" /\ last'.status = 200)
    => LET id == last'.req.subscription_id
       IN /\ accounts' = {IF a.subscription_id = id
                          THEN [a EXCEPT !.subscription_id = NULL] ELSE a : a \in accounts}
          /\ Cardinality(accounts') = Cardinality(accounts)
          /\ \A a \in accounts : ProfilesOf(a.account_id)' = ProfilesOf(a.account_id)
          /\ UNCHANGED profiles

\* An account without a plan logs in with its password, and its GET
\* /api/account/subscription is answered 404.
WithoutPlan ==
  \A a \in accounts :
    a.subscription_id = NULL
      => /\ login(DB, [email |-> a.email, password |-> "x"], now).status = 200
         /\ \A hdr \in UnexpiredHeaders("account_id") :
              hdr.token.payload.account_id = a.account_id
                => account_request("get_subscription", DB, hdr, AnyReq, now).status = 404

\* What the requests the runs made were answered.
WithoutPlanAnswered ==
  /\ (/\ last'.op = "login"
      /\ last'.req.data.password = "x"
      /\ \E a \in accounts : a.email = last'.req.data.email)
       => last'.status = 200
  /\ (/\ last'.op = "get_subscription"
      /\ last'.invoked
      /\ \E a \in accounts : /\ a.account_id = last'.hdr.token.payload.account_id
                             /\ a.subscription_id = NULL)
       => last'.status = 404

\* C25: deleting a subscription plan deletes no account and no profile;
\* every account that referenced the plan remains, with subscription_id
\* null and all its profiles, can still log in, and its GET
\* /api/account/subscription is answered 404.
C25_PlanDeletionKeepsSubscribers ==
  []WithoutPlan /\ [][SubscribersKept /\ WithoutPlanAnswered]_vars

\* GET /api/account/subscription of an account with two profiles whose
\* plan was deleted was answered 404.
C25_Witness ==
  /\ last.op = "get_subscription"
  /\ last.status = 404
  /\ last.invoked
  /\ \E a \in accounts :
       /\ a.account_id = last.hdr.token.payload.account_id
       /\ a.subscription_id = NULL
       /\ Cardinality(ProfilesOf(a.account_id)) = 2
  /\ Cardinality(subscriptions) < Cardinality(SeedSubscriptions)

\* ---------------------------------------------------------------------------
\* Season numbers and episode numbers
\* ---------------------------------------------------------------------------

\* Seasons and episodes the administrator may add in these runs.
MaxNumberCreated == 1

\* Numbers in use in the seed data and one that is free.
SeasonNumbers == {JsonInt(0, 1), JsonInt(0, 2), JsonInt(0, 3)}

EpisodeNumbers == {JsonInt(0, 1), JsonInt(0, 4)}

NumbersCreateSeason ==
  /\ seq.seasons < SeedSeq.seasons + MaxNumberCreated
  /\ AdminRequest("create_season", PartialHeaders("admin_id"),
                  {[content_id |-> c, data |-> [season_number |-> n]] :
                     c \in {OwnerContentId, ShowContentId}, n \in SeasonNumbers})

NumbersUpdateSeason ==
  AdminRequest("update_season", PartialHeaders("admin_id"),
               {[season_id |-> i, data |-> [season_number |-> n]] :
                  i \in {1, SeedSeq.seasons}, n \in SeasonNumbers})

NumbersCreateEpisode ==
  /\ seq.episodes < SeedSeq.episodes + MaxNumberCreated
  /\ AdminRequest("create_episode", PartialHeaders("admin_id"),
                  {[season_id |-> i, data |-> [title |-> "Finale", episode_number |-> n]] :
                     i \in {2, SeedSeq.seasons}, n \in EpisodeNumbers})

\* Updates of the number alone and of the title with the number.
NumbersUpdateEpisode ==
  AdminRequest("update_episode", PartialHeaders("admin_id"),
               {[episode_id |-> 4, data |-> d] :
                  d \in {[episode_number |-> n] : n \in EpisodeNumbers}
                          \cup {[title |-> "Finale", episode_number |-> JsonInt(0, 2)],
                                [title |-> "Finale"]}})

NextNumbers ==
  \/ SeedAdminLogin
  \/ NumbersCreateSeason
  \/ NumbersUpdateSeason
  \/ NumbersCreateEpisode
  \/ NumbersUpdateEpisode

SpecNumbers == Init /\ [][NextNumbers]_vars

NumbersUnique ==
  /\ \A s, t \in seasons :
       (s.content_id = t.content_id /\ s.season_number = t.season_number) => s = t
  /\ \A e, f \in episodes :
       (e.season_id = f.season_id /\ e.episode_number = f.episode_number) => e = f

\* The request the step has served would give a content item two seasons
\* of one number, or a season two episodes of one number.
WouldDuplicate ==
  LET op == last'.op
      req == last'.req
  IN /\ last'.invoked
     /\ \/ /\ op = "create_season"
           /\ \E s \in seasons : /\ s.content_id = req.content_id
                                 /\ s.season_number = req.data.season_number.lo
        \/ /\ op = "update_season"
           /\ \E s, t \in seasons : /\ s.season_id = req.season_id
                                    /\ t.season_id # s.season_id
                                    /\ t.content_id = s.content_id
                                    /\ t.season_number = req.data.season_number.lo
        \/ /\ op = "create_episode"
           /\ \E e \in episodes : /\ e.season_id = req.season_id
                                  /\ e.episode_number = req.data.episode_number.lo
        \/ /\ op = "update_episode"
           /\ Has(req.data, "episode_number")
           /\ \E e, f \in episodes : /\ e.episode_id = req.episode_id
                                     /\ f.episode_id # e.episode_id
                                     /\ f.season_id = e.season_id
                                     /\ f.episode_number = req.data.episode_number.lo

DuplicateRefused ==
  WouldDuplicate => last'.status = 500 /\ UNCHANGED <<seasons, episodes>>

\* C26: season_number is unique among the seasons of one content item and
\* episode_number among the episodes of one season; a create_season,
\* update_season, create_episode or update_episode request that would
\* produce a duplicate is answered 500 and leaves all seasons and episodes
\* unchanged.
C26_NumbersUnique ==
  []NumbersUnique /\ [][DuplicateRefused]_vars

\* An update of episode 4 carrying a new title and the number of episode 5
\* of the same season was answered 500, and the title is the old one.
C26_Witness ==
  /\ last.op = "update_episode"
  /\ last.status = 500
  /\ last.req.data = [title |-> "Finale", episode_number |-> JsonInt(0, 2)]
  /\ \E e \in episodes : e.episode_id = 4 /\ e.title = "Return Journey"
  /\ \E e \in episodes : e.episode_id = 5 /\ e.episode_number = 2 /\ e.season_id = 2

\* ---------------------------------------------------------------------------
\* The token of a deleted account
\* ---------------------------------------------------------------------------

\* Accounts registered in these runs.
MaxGoneAccountId == 2

GoneRegister ==
  /\ seq.accounts <= MaxGoneAccountId
  /\ Register({[email |-> e, password |-> "x", subscription_id |-> RacePlanId] :
                 e \in {"a@b.com", "c@d.com"}})

GoneDeleteAccount ==
  AdminRequest("delete_account", PartialHeaders("admin_id"),
               {[account_id |-> i] : i \in 1..MaxGoneAccountId})

GoneGetMe == AccountRequest("get_me", PartialHeaders("account_id"), {AnyReq})

GoneGetAccount == AccountRequest("get_account", PartialHeaders("account_id"), {AnyReq})

NextGone ==
  \/ GoneRegister
  \/ SeedAdminLogin
  \/ GoneDeleteAccount
  \/ GoneGetMe
  \/ GoneGetAccount

SpecGone == Init /\ [][NextGone]_vars

\* C27: GET /api/auth/me and GET /api/account called with the unexpired
\* token of an account, deleted or not, end with a response of the handler:
\* 200 with an account row, or an error of the form {"error": message};
\* no exception leaves the handler because the account row is missing.
C27_MissingAccountAnswered ==
  (/\ last.op \in {"get_me", "get_account"}
   /\ last.invoked
   /\ last.hdr \in UnexpiredHeaders("account_id"))
    => \/ last.status = 200 /\ "account_id" \in DOMAIN last.body
       \/ DOMAIN last.body = {"error"}

\* ---------------------------------------------------------------------------
\* Two registrations with one email
\* ---------------------------------------------------------------------------

TwinBodies ==
  {[email |-> "a@b.com", password |-> w, subscription_id |-> RacePlanId] : w \in {"x", "y"}}

\* Each thread registers once.
TwinRegister ==
  \E p \in Threads : \E d \in TwinBodies :
    /\ proc[p].op = ""
    /\ Begin(p, "register", NoHeader, [data |-> d])

NextTwins ==
  \/ TwinRegister
  \/ \E p \in Threads : Connect(p)
  \/ \E p \in Threads : Query(p)
  \/ \E p \in Threads : Execute(p)
  \/ \E p \in Threads : Commit(p)
  \/ \E p \in Threads : Except(p)
  \/ \E p \in Threads : Finally(p)

SpecTwins == Init /\ [][NextTwins]_vars

BothAnswered ==
  \A p \in Threads : proc[p].op = "register" /\ proc[p].pc = "idle"

\* C28: when two register requests with the same email, which no account
\* has, have both been answered, exactly one account has that email, one
\* request was answered 201 and the other 400, and no other status occurs.
C28_OneCreatedOtherRefused400 ==
  BothAnswered
    => /\ Cardinality({a \in accounts : a.email = "a@b.com"}) = 1
       /\ {proc[p].status : p \in Threads} = {201, 400}

\* ---------------------------------------------------------------------------
\* setup_database.py: wait_for_db and main
\* ---------------------------------------------------------------------------

\* def wait_for_db(max_retries=30, delay=2)
DefaultMaxRetries == 30

DefaultDelay == 2

\* Largest max_retries of a direct call of wait_for_db in these runs.
MaxRetryArg == 3

Others == <<tables, seq, now, issued, last, proc>>

\* (mutant) a sleep after every failed attempt, the last included
sleep_after_every_failure(attempt, max_retries) == attempt < max_retries

\* if attempt < max_retries - 1
retry_follows(attempt, max_retries) == attempt < max_retries - 1

Event(e, s) == [e |-> e, s |-> s]

\* One pass through the body of the for loop, up to time.sleep:
\* psycopg2.connect connects, or raises OperationalError.
wait_for_db_attempt(c, connects) ==
  IF connects
  THEN [c EXCEPT !.events = Append(@, Event("connected", 0)), !.ready = "True",
                 !.pc = "returned"]
  ELSE IF retry_follows(c.attempt, c.max_retries)
  THEN [c EXCEPT !.events = Append(@, Event("failed", 0)), !.pc = "sleep"]
  ELSE [c EXCEPT !.events = Append(@, Event("failed", 0)), !.ready = "False",
                 !.pc = "returned"]

\* time.sleep(delay) and the step of the for loop; 'return False' after the
\* loop when range(max_retries) is used up.
wait_for_db_sleep(c) ==
  LET slept == [c EXCEPT !.events = Append(@, Event("sleep", c.delay)), !.attempt = @ + 1]
  IN IF slept.attempt < c.max_retries
     THEN [slept EXCEPT !.pc = "connect"]
     ELSE [slept EXCEPT !.ready = "False", !.pc = "returned"]

\* except psycopg2.Error / except Exception: return 1
main_except(c) == [c EXCEPT !.pc = "exit", !.exit = 1]

\* if not wait_for_db(): ... return 1
main_after_wait(c) ==
  IF c.ready # "True" THEN [c EXCEPT !.pc = "exit", !.exit = 1]
  ELSE [c EXCEPT !.pc = "get_connection"]

\* The tables of the DROP TABLE IF EXISTS statements, in their order.
DropOrder ==
  <<"viewing_history", "wishlist", "episodes", "seasons", "media_files", "content_genres",
    "genres", "content", "profiles", "accounts", "subscriptions", "admins">>

\* (mutant) accounts created before subscriptions
CreateOrderAccountsFirst ==
  <<"accounts", "subscriptions", "profiles", "content", "genres", "content_genres",
    "media_files", "seasons", "episodes", "wishlist", "viewing_history", "admins">>

\* The tables of the CREATE TABLE statements, in their order.
CreateOrder ==
  <<"subscriptions", "accounts", "profiles", "content", "genres", "content_genres",
    "media_files", "seasons", "episodes", "wishlist", "viewing_history", "admins">>

\* The tables named by the REFERENCES clauses of each CREATE TABLE.
References ==
  [t \in {CreateOrder[i] : i \in DOMAIN CreateOrder} |->
     CASE t = "accounts" -> {"subscriptions"}
       [] t = "profiles" -> {"accounts"}
       [] t = "content_genres" -> {"content", "genres"}
       [] t = "media_files" -> {"content"}
       [] t = "seasons" -> {"content"}
       [] t = "episodes" -> {"seasons"}
       [] t \in {"wishlist", "viewing_history"} -> {"profiles", "content"}
       [] OTHER -> {}]

\* python setup_database.py
CallMain ==
  /\ setup = NoSetup
  /\ setup' = [NoSetup EXCEPT !.pc = "connect", !.fn = "main",
                              !.max_retries = DefaultMaxRetries, !.delay = DefaultDelay]
  /\ UNCHANGED Others

\* wait_for_db(max_retries, delay), called by itself
CallWaitForDb ==
  /\ setup = NoSetup
  /\ \E m \in 1..MaxRetryArg, d \in {1, DefaultDelay} :
       setup' = [NoSetup EXCEPT !.pc = "connect", !.fn = "wait_for_db",
                                !.max_retries = m, !.delay = d]
  /\ UNCHANGED Others

WaitForDbConnect ==
  /\ setup.pc = "connect"
  /\ \E connects \in BOOLEAN : setup' = wait_for_db_attempt(setup, connects)
  /\ UNCHANGED Others

WaitForDbSleep ==
  /\ setup.pc = "sleep"
  /\ setup' = wait_for_db_sleep(setup)
  /\ UNCHANGED Others

MainAfterWait ==
  /\ setup.fn = "main"
  /\ setup.pc = "returned"
  /\ setup' = main_after_wait(setup)
  /\ UNCHANGED Others

\* conn = get_connection()
MainGetConnection ==
  /\ setup.pc = "get_connection"
  /\ \E ok \in BOOLEAN :
       setup' = IF ok THEN [setup EXCEPT !.pc = "drop", !.connected = TRUE]
                ELSE main_except(setup)
  /\ UNCHANGED Others

\* create_tables: the next DROP TABLE IF EXISTS of the first cur.execute
CreateTablesDrop ==
  /\ setup.pc = "drop"
  /\ \E ok \in BOOLEAN :
       setup' = IF ok
                THEN [setup EXCEPT !.dropped = Append(@, DropOrder[Len(@) + 1]),
                                   !.pc = IF Len(setup.dropped) + 1 = Len(DropOrder)
                                          THEN "create" ELSE "drop"]
                ELSE main_except(setup)
  /\ UNCHANGED Others

\* create_tables: the next CREATE TABLE
CreateTablesCreate ==
  /\ setup.pc = "create"
  /\ \E ok \in BOOLEAN :
       setup' = IF ok
                THEN [setup EXCEPT !.created = Append(@, CreateOrder[Len(@) + 1]),
                                   !.pc = IF Len(setup.created) + 1 = Len(CreateOrder)
                                          THEN "commit" ELSE "create"]
                ELSE main_except(setup)
  /\ UNCHANGED Others

\* create_tables: conn.commit(); cur.close()
CreateTablesCommit ==
  /\ setup.pc = "commit"
  /\ \E ok \in BOOLEAN :
       setup' = IF ok THEN [setup EXCEPT !.done = Append(@, "create_tables"),
                                         !.pc = "populate_seed_data"]
                ELSE main_except(setup)
  /\ UNCHANGED Others

PopulateSeedData ==
  /\ setup.pc = "populate_seed_data"
  /\ \E ok \in BOOLEAN :
       setup' = IF ok THEN [setup EXCEPT !.done = Append(@, "populate_seed_data"),
                                         !.pc = "create_indexes"]
                ELSE main_except(setup)
  /\ UNCHANGED Others

CreateIndexes ==
  /\ setup.pc = "create_indexes"
  /\ \E ok \in BOOLEAN :
       setup' = IF ok THEN [setup EXCEPT !.done = Append(@, "create_indexes"),
                                         !.pc = "close"]
                ELSE main_except(setup)
  /\ UNCHANGED Others

\* conn.close() and return 0
MainClose ==
  /\ setup.pc = "close"
  /\ \E ok \in BOOLEAN :
       setup' = IF ok THEN [setup EXCEPT !.pc = "exit", !.exit = 0]
                ELSE main_except(setup)
  /\ UNCHANGED Others

NextSetup ==
  \/ CallMain
  \/ CallWaitForDb
  \/ WaitForDbConnect
  \/ WaitForDbSleep
  \/ MainAfterWait
  \/ MainGetConnection
  \/ CreateTablesDrop
  \/ CreateTablesCreate
  \/ CreateTablesCommit
  \/ PopulateSeedData
  \/ CreateIndexes
  \/ MainClose

\* The interpreter runs the next statement of the script, and every call
\* it makes returns or raises.
SpecSetup == Init /\ [][NextSetup]_vars /\ WF_vars(NextSetup)

Happened(e) == {i \in DOMAIN setup.events : setup.events[i].e = e}

Attempts == Happened("connected") \cup Happened("failed")

\* At most max_retries attempts; nothing after an attempt that connected;
\* a sleep lasts delay and comes after a failed attempt that is not the
\* max_retries-th, so at most max_retries - 1 times; True is returned at the
\* attempt that connects and False at the max_retries-th failure.
WaitBounded ==
  LET ev == setup.events
  IN /\ Cardinality(Attempts) <= setup.max_retries
     /\ \A i \in Happened("connected") : i = Len(ev) /\ setup.ready = "True"
     /\ \A i \in Happened("sleep") :
          /\ ev[i].s = setup.delay
          /\ i - 1 \in Happened("failed")
          /\ Cardinality({j \in Happened("failed") : j < i}) < setup.max_retries
          /\ setup.ready # "" => i + 1 \in Attempts
     /\ Cardinality(Happened("sleep")) <= setup.max_retries - 1 \/ setup.fn = ""
     /\ setup.ready = "True" => Happened("connected") # {}
     /\ setup.ready = "False"
          => /\ Happened("connected") = {}
             /\ Cardinality(Happened("failed")) = setup.max_retries
             /\ ev[Len(ev)].e = "failed"
     /\ setup.ready # "" => setup.pc \notin {"connect", "sleep"}

\* C29: wait_for_db returns after at most max_retries connection attempts:
\* True at the first attempt that connects, with no further attempt, False
\* after exactly max_retries failed attempts; it sleeps delay between
\* attempts only, at most max_retries - 1 times and never after the last
\* failure.
C29_WaitForDbBounded ==
  []WaitBounded /\ ((setup.pc = "connect") ~> (setup.ready # ""))

\* wait_for_db(3) returned False after three failures and two sleeps.
C29_Witness ==
  /\ setup.fn = "wait_for_db"
  /\ setup.max_retries = 3
  /\ setup.ready = "False"
  /\ Cardinality(Happened("failed")) = 3
  /\ Cardinality(Happened("sleep")) = 2

\* ---------------------------------------------------------------------------
\* The order of the setup steps
\* ---------------------------------------------------------------------------

MainSteps == <<"create_tables", "populate_seed_data", "create_indexes">>

Before(s, x, i) == \E k \in 1..(i - 1) : s[k] = x

\* No statement has reached the database.
SchemaUntouched ==
  ~setup.connected /\ setup.dropped = <<>> /\ setup.created = <<>> /\ setup.done = <<>>

\* The steps complete in the order of MainSteps, and a step begins when the
\* one before it is complete.
StepsInOrder ==
  /\ Len(setup.done) <= Len(MainSteps)
  /\ \A i \in DOMAIN setup.done : setup.done[i] = MainSteps[i]
  /\ setup.done = <<>> => setup.pc \notin {"populate_seed_data", "create_indexes", "close"}
  /\ setup.done # <<>> => (setup.dropped = DropOrder /\ setup.created = CreateOrder)
  /\ setup.pc = "populate_seed_data" => setup.done = <<"create_tables">>
  /\ setup.pc = "create_indexes" => setup.done = <<"create_tables", "populate_seed_data">>

\* A table is dropped before every table it references, and created after
\* every table it references; no table is created before all are dropped.
TablesInOrder ==
  /\ \A i \in DOMAIN setup.dropped :
       \A r \in References[setup.dropped[i]] : ~Before(setup.dropped, r, i)
  /\ \A i \in DOMAIN setup.created :
       \A r \in References[setup.created[i]] : Before(setup.created, r, i)
  /\ setup.created # <<>> => Len(setup.dropped) = Len(DropOrder)

\* C30: main runs create_tables, then populate_seed_data, then
\* create_indexes, and only after wait_for_db returned True; when it
\* returned False main returns 1 and the schema is untouched; create_tables
\* drops every table before any table it references and creates it after
\* every table it references; main returns 0 only if the three steps
\* completed.
C30_SetupInOrder ==
  /\ StepsInOrder
  /\ TablesInOrder
  /\ ~SchemaUntouched => setup.ready = "True"
  /\ (setup.fn = "main" /\ setup.ready = "False" /\ setup.pc = "exit")
       => setup.exit = 1 /\ SchemaUntouched
  /\ setup.exit = 0 => setup.done = MainSteps
  /\ setup.pc = "exit" <=> setup.exit \in {0, 1}

\* main returned 0 after wait_for_db connected at its third attempt.
C30_Witness ==
  /\ setup.fn = "main"
  /\ setup.exit = 0
  /\ setup.done = MainSteps
  /\ Cardinality(Happened("failed")) = 2
  /\ setup.created = CreateOrder

====
